---- MODULE Spec2Model ----
(***************************************************************************)
(* Model of the permissioning server's control plane                       *)
(* (elixxir/registration): the round-update log of storage/state.go, the   *)
(* polling endpoint, the node-state-change handler and the scheduler loop, *)
(* and the NDF publisher.                                                  *)
(*                                                                         *)
(* The module holds three specifications over one set of variables:        *)
(*   SpecLog  the round-update log (AddRoundUpdate, the signing            *)
(*            goroutines, RoundAdderRoutine, NewState and restarts);       *)
(*   Spec     polling, the update channel, HandleNodeUpdates, the          *)
(*            scheduler loop and the round starter;                        *)
(*   SpecNdf  UpdateInternalNdf, UpdateOutputNdf, the prune list and the   *)
(*            address updates of Poll.                                     *)
(* Each specification leaves the variables of the other two unchanged.     *)
(***************************************************************************)
EXTENDS Integers, Sequences, FiniteSets, TLC

\* ------------------------------------------------------------------ bounds

\* Goroutines that call AddRoundUpdate concurrently (the scheduler thread and
\* the round starter are the two callers in the program).
NumCallers == 2
\* AddRoundUpdate calls per process lifetime.
MaxUpdates == 3
\* Process restarts (NewState run again on the same storage).
MaxRestarts == 1

\* Registered nodes.
NumNodes == 2
\* Params.TeamSize: team size and pool fill threshold.
TeamSize == 2
\* Rounds created per run (caps the round ID counter).
MaxRounds == 1
\* Params.BatchSize: the batch size stamped on every new round.
BatchSize == 32
\* Capacity of the node update channel (updateBufferLength, scaled down so
\* that a full channel is reachable).
UpdateBufferLength == 1

\* Operators (a node and its gateway) that may register.
NumOperators == 2
\* Distinct addresses an operator may report.
NumAddrs == 2
\* Readings of the wall clock (caps the NDF timestamps).
MaxClock == 3
\* The UpdateId and RoundId rows of storage used by earlier runs
MaxStored == 9
\* The minimum delay between round starts (Params.MinimumDelay), in ms.
MinimumDelay == 4
\* The last reading of the round starter's clock, in ms.
MaxTime == 6
\* Rounds the round starter is sent.
MaxStarts == 3
\* Goroutines calling operations of NetworkState that take the NDF locks.
NumThreads == 2
\* Capacity of newRoundChan where it is scaled down from newRoundChanLen.
ScaledNewRoundChanLen == 1

\* ------------------------------------------------------- program constants

\* Capacity of roundUpdatesToAddCh.
RoundUpdatesChanLen == 500

VARIABLES
    \* ---- round-update log (storage/state.go)
    storedUpdateID,       \* State row UpdateIdKey in PermissioningDb; -1: no row
    updateID,             \* NetworkState.updateID
    updateMux,            \* NetworkState.updateMux: 0 free, else the holder
    pc,                   \* position of each AddRoundUpdate caller
    oldUpdateID,          \* IncrementUpdateID's local oldUpdateID, per caller
    ticket,               \* index in history of the caller's current call
    history,              \* AddRoundUpdate calls in order of entry
    signing,              \* UIDs held by signing goroutines (state.go:296)
    roundUpdatesToAddCh,  \* the buffered channel, oldest first
    futureRoundUpdates,   \* RoundAdderRoutine's map, as its key set
    nextID,               \* RoundAdderRoutine's nextID
    roundUpdates,         \* UIDs passed to roundUpdates.AddRound, in call order
    nsPc,                 \* position of NewState
    restarts,             \* restarts so far
    emitted,              \* UIDs handed to a signing goroutine since NewState
    stateRoundID,         \* NetworkState.roundID
    storedRoundID         \* State row RoundIdKey in PermissioningDb; -1: no row

logVars == <<storedUpdateID, updateID, updateMux, pc, oldUpdateID, ticket,
             history, signing, roundUpdatesToAddCh, futureRoundUpdates,
             nextID, roundUpdates, nsPc, restarts, emitted, stateRoundID,
             storedRoundID>>

VARIABLES
    \* ---- node map (storage/node), one entry per registered node
    activity,             \* node.State.activity
    status,               \* node.State.status
    currentRound,         \* node.State.currentRound as a round ID; 0: nil
    pollingLock,          \* node.State polling lock: 1 when held, 0 when free
    \* ---- scheduler (scheduling)
    update,               \* NetworkState.update, the notification channel
    cur,                  \* the notification the scheduler loop has received
    schedPc,              \* scheduler loop: "select", "handle", "exited"
    pool,                 \* waiting pool, online partition, insertion order
    rounds,               \* round.StateMap: round ID -> round state
    roundID,              \* NetworkState.roundID, the next round ID
    tracker,              \* RoundTracker: active round IDs
    newRoundChan,         \* protoRounds sent to the round starter
    starterPc,            \* round starter goroutine: "running", "stopped"
    errorChan,            \* errors of the round starter (capacity 1)
    roundLog,             \* RoundInfos passed to AddRoundUpdate, in UID order
    \* ---- observation
    accepted,             \* per node: activities Node.Update accepted in Poll
                          \*   that the handler has not yet processed
    enqueued,             \* per node: activities whose notification was sent
                          \*   that the handler has not yet processed
    standbyReported,      \* per round: nodes whose STANDBY report was handled
    bannedHandled,        \* nodes whose ToStatus = Banned update was handled
    handlerError          \* the exit of the last HandleNodeUpdates call that
                          \* returned an error ("none": no call did)

VARIABLES
    \* ---- round starter goroutine, its timing (schedule.go:71-90)
    now,                  \* time.Now(), in milliseconds
    lastRound,            \* lastRound
    sleepUntil,           \* the earliest time the time.Sleep of line 78 ends
    delayPc,              \* "range", "sleep", "start" or "exited"
    queued,               \* protoRounds waiting in newRoundChan
    startTimes            \* the times startRound was called at, in order

delayVars == <<now, lastRound, sleepUntil, delayPc, queued, startTimes>>

schedVars == <<activity, status, currentRound, pollingLock, update, cur,
               schedPc, pool, rounds, roundID, tracker, newRoundChan,
               starterPc, errorChan, roundLog, accepted, enqueued,
               standbyReported, bannedHandled, handlerError, delayVars>>

\* The scheduler's variables the timing of the round starter does not touch.
sleepVars == <<activity, status, currentRound, pollingLock, update, cur,
               schedPc, pool, rounds, roundID, tracker, newRoundChan,
               starterPc, errorChan, roundLog, accepted, enqueued,
               standbyReported, bannedHandled, handlerError>>

VARIABLES
    \* ---- network definition (storage/state.go)
    unprunedNdf,          \* NetworkState.unprunedNdf, the canonical NDF
    fullNdf,              \* NetworkState.fullNdf, the published NDF
    pruneList,            \* NetworkState.pruneList: operator -> "none" (no
                          \*   entry), "prune" (true) or "stale" (false)
    clock,                \* time.Now()
    serverAddress,        \* node.State address of each operator's node
    gatewayAddress,       \* node.State address of each operator's gateway
    disabledNodes,        \* disabledNodes: the IDs getDisabledNodes returns
    lockOp,               \* per thread: the NetworkState operation it is in
    lockIdx               \* per thread: the lock instructions it has executed

lockVars == <<lockOp, lockIdx>>

ndfVars == <<unprunedNdf, fullNdf, pruneList, clock, serverAddress,
             gatewayAddress, disabledNodes, lockVars>>

vars == <<logVars, schedVars, ndfVars>>

Callers == 1..NumCallers

Nodes == 1..NumNodes

RoundIDs == 1..(MaxRounds + 2)

Operators == 1..NumOperators

Threads == 1..NumThreads

Addrs == 1..NumAddrs

\* current.Activity
Activities == {"NOT_STARTED", "WAITING", "PRECOMPUTING", "STANDBY",
               "REALTIME", "COMPLETED", "ERROR"}

\* states.Round, with its numeric order
PhaseOrd(ph) ==
    CASE ph = "PENDING" -> 0
      [] ph = "PRECOMPUTING" -> 1
      [] ph = "STANDBY" -> 2
      [] ph = "QUEUED" -> 3
      [] ph = "REALTIME" -> 4
      [] ph = "COMPLETED" -> 5
      [] ph = "FAILED" -> 6

NoUpdate == [node |-> 0, from |-> "NOT_STARTED", to |-> "NOT_STARTED",
             toStatus |-> "Active", errId |-> -1]

\* schedule.go:39  const newRoundChanLen
NewRoundChanLen == 100

\* ------------------------------------------------------------ pure helpers

Max(S) == CHOOSE x \in S : \A y \in S : y <= x

Range(s) == {s[i] : i \in DOMAIN s}

\* GetLastUpdateID answering 0 for an empty buffer.
GetLastUpdateIDZeroWhenEmpty(log) == IF log = <<>> THEN 0 ELSE Max(Range(log))

\* dataStructures.Updates.GetLastUpdateID: the newest UID held, -1 when the
\* buffer is empty.
GetLastUpdateID(log) == IF log = <<>> THEN -1 ELSE Max(Range(log))

\* NetworkState.GetUpdates: the UIDs strictly greater than id, in UID order.
RECURSIVE SortedFrom(_, _, _)
SortedFrom(S, lo, hi) ==
    IF lo > hi THEN <<>>
    ELSE (IF lo \in S THEN <<lo>> ELSE <<>>) \o SortedFrom(S, lo + 1, hi)

GetUpdates(log, id) == SortedFrom(Range(log), id + 1, GetLastUpdateID(log))

\* ------------------------------------------------------- AddRoundUpdate

\* state.go:285  s.updateMux.Lock()
LockNoMutex(c) ==
    /\ nsPc = "ready"
    /\ pc[c] = "idle"
    /\ Len(history) < MaxUpdates
    /\ history' = Append(history, [caller |-> c, uid |-> -1, res |-> "pending"])
    /\ ticket' = [ticket EXCEPT ![c] = Len(history) + 1]
    /\ pc' = [pc EXCEPT ![c] = "locked"]
    /\ UNCHANGED <<ndfVars, stateRoundID, storedRoundID,
                   storedUpdateID, updateID, updateMux, oldUpdateID, signing,
                   roundUpdatesToAddCh, futureRoundUpdates, nextID,
                   roundUpdates, nsPc, restarts, emitted,
                   schedVars>>

Lock(c) ==
    /\ nsPc = "ready"
    /\ pc[c] = "idle"
    /\ updateMux = 0
    /\ Len(history) < MaxUpdates
    /\ updateMux' = c
    /\ history' = Append(history, [caller |-> c, uid |-> -1, res |-> "pending"])
    /\ ticket' = [ticket EXCEPT ![c] = Len(history) + 1]
    /\ pc' = [pc EXCEPT ![c] = "locked"]
    /\ UNCHANGED <<ndfVars, stateRoundID, storedRoundID,
                   storedUpdateID, updateID, oldUpdateID, signing,
                   roundUpdatesToAddCh, futureRoundUpdates, nextID,
                   roundUpdates, nsPc, restarts, emitted,
                   schedVars>>

\* state.go:595  oldUpdateID := s.updateID
ReadUpdateID(c) ==
    /\ pc[c] = "locked"
    /\ oldUpdateID' = [oldUpdateID EXCEPT ![c] = updateID]
    /\ history' = [history EXCEPT ![ticket[c]].uid = updateID]
    /\ pc' = [pc EXCEPT ![c] = "read"]
    /\ UNCHANGED <<ndfVars, stateRoundID, storedRoundID,
                   storedUpdateID, updateID, updateMux, ticket, signing,
                   roundUpdatesToAddCh, futureRoundUpdates, nextID,
                   roundUpdates, nsPc, restarts, emitted,
                   schedVars>>

\* state.go:596-597 and 290-321: s.updateID = s.updateID + 1, setId persists
\* the new value (dbOk: whether UpsertState succeeds); on success the copy is
\* given its UID and a signing goroutine is started; the deferred Unlock runs
\* on both returns.
IncrementUpdateID(c, dbOk) ==
    /\ pc[c] = "read"
    /\ updateID' = updateID + 1
    /\ storedUpdateID' = IF dbOk THEN updateID + 1 ELSE storedUpdateID
    /\ signing' = IF dbOk THEN signing \cup {oldUpdateID[c]} ELSE signing
    /\ emitted' = IF dbOk THEN emitted \cup {oldUpdateID[c]} ELSE emitted
    /\ history' = [history EXCEPT ![ticket[c]].res = IF dbOk THEN "ok" ELSE "err"]
    /\ updateMux' = IF updateMux = c THEN 0 ELSE updateMux
    /\ pc' = [pc EXCEPT ![c] = "idle"]
    /\ UNCHANGED <<ndfVars, stateRoundID, storedRoundID,
                   oldUpdateID, ticket, roundUpdatesToAddCh,
                   futureRoundUpdates, nextID, roundUpdates, nsPc, restarts,
                   schedVars>>

\* state.go:296-320  the goroutine signs the copy and sends it on the channel;
\* goroutines finish in any order.
Signer(u) ==
    /\ u \in signing
    /\ Len(roundUpdatesToAddCh) < RoundUpdatesChanLen
    /\ signing' = signing \ {u}
    /\ roundUpdatesToAddCh' = Append(roundUpdatesToAddCh, u)
    /\ UNCHANGED <<ndfVars, stateRoundID, storedRoundID,
                   storedUpdateID, updateID, updateMux, pc, oldUpdateID,
                   ticket, history, futureRoundUpdates, nextID, roundUpdates,
                   nsPc, restarts, emitted,
                   schedVars>>

\* ----------------------------------------------------- RoundAdderRoutine

\* state.go:359-367  the drain loop: while futureRoundUpdates[nextID] exists,
\* AddRound it, delete it, nextID++.  Returns the state after the loop.
RECURSIVE Drain(_, _, _)
Drain(future, nxt, log) ==
    IF nxt \in future
    THEN Drain(future \ {nxt}, nxt + 1, Append(log, nxt))
    ELSE [future |-> future, nextID |-> nxt, log |-> log]

\* state.go:329-368  one iteration of the for loop.
AdderStep(future, nxt, log, rndUpdateId) ==
    IF rndUpdateId < nxt
    THEN \* "If update is not current, process it immediately"
         [future |-> future, nextID |-> nxt, log |-> Append(log, rndUpdateId)]
    ELSE LET n1 == IF nxt = 0 THEN rndUpdateId ELSE nxt
         IN  Drain(future \cup {rndUpdateId}, n1, log)

RoundAdderRoutine ==
    /\ roundUpdatesToAddCh # <<>>
    /\ LET r == AdderStep(futureRoundUpdates, nextID, roundUpdates,
                          Head(roundUpdatesToAddCh))
       IN  /\ futureRoundUpdates' = r.future
           /\ nextID' = r.nextID
           /\ roundUpdates' = r.log
    /\ roundUpdatesToAddCh' = Tail(roundUpdatesToAddCh)
    /\ UNCHANGED <<ndfVars, stateRoundID, storedRoundID,
                   storedUpdateID, updateID, updateMux, pc, oldUpdateID,
                   ticket, history, signing, nsPc, restarts, emitted,
                   schedVars>>

\* ------------------------------------------------------------- NewState

\* FormatUint keeping only the last decimal digit.
FormatUintLastDigit(n) == <<n % 10>>

\* state.go:538  strconv.FormatUint(newVal, 10): the decimal digits of n, most
\* significant first.
RECURSIVE FormatUint(_)
FormatUint(n) ==
    IF n < 10 THEN <<n>> ELSE Append(FormatUint(n \div 10), n % 10)

\* state.go:553  strconv.ParseUint(roundIdStr, 10, 64) of a digit string.
RECURSIVE ParseUint(_)
ParseUint(str) ==
    IF str = <<>> THEN 0
    ELSE 10 * ParseUint(SubSeq(str, 1, Len(str) - 1)) + str[Len(str)]

\* state.go:547-558, permissioningMap.go:31-42  get: the row written by
\* setId holds FormatUint of the value (the variables keep the value, -1 for
\* a missing row); a missing row is an error and yields 0.
get(stored) ==
    IF stored = -1 THEN [val |-> 0, err |-> TRUE]
    ELSE [val |-> ParseUint(FormatUint(stored)), err |-> FALSE]

\* state.go:127-136  state.updateID, err = state.GetUpdateID() and
\* state.roundID, err = state.GetRoundID(); a missing row is ignored and
\* leaves the zero value.
NewStateLoad ==
    /\ nsPc = "start"
    /\ updateID' = get(storedUpdateID).val
    /\ stateRoundID' = get(storedRoundID).val
    /\ nsPc' = "loaded"
    /\ UNCHANGED <<ndfVars, storedRoundID,
                   storedUpdateID, updateMux, pc, oldUpdateID, ticket, history,
                   signing, roundUpdatesToAddCh, futureRoundUpdates, nextID,
                   roundUpdates, restarts, emitted,
                   schedVars>>

\* state.go:169-179  if updateID == 0: setId(UpdateIdKey, 0), then
\* AddRoundUpdate(dummy), which takes UID 0 and persists 1.
NewStateDummy ==
    /\ nsPc = "loaded"
    /\ updateID = 0
    /\ updateID' = 1
    /\ storedUpdateID' = 1
    /\ signing' = signing \cup {0}
    /\ emitted' = emitted \cup {0}
    /\ nsPc' = "wait"
    /\ UNCHANGED <<ndfVars, stateRoundID, storedRoundID,
                   updateMux, pc, oldUpdateID, ticket, history,
                   roundUpdatesToAddCh, futureRoundUpdates, nextID,
                   roundUpdates, restarts,
                   schedVars>>

\* state.go:184-190  if state.roundID == 0: roundID = 1 and
\* setId(RoundIdKey, 1), the last statement of NewState.
NewStateRoundID ==
    /\ stateRoundID' = IF stateRoundID = 0 THEN 1 ELSE stateRoundID
    /\ storedRoundID' = IF stateRoundID = 0 THEN 1 ELSE storedRoundID

\* state.go:181-182  for state.roundUpdates.GetLastUpdateID() != 0 {}
NewStateWait ==
    /\ nsPc = "wait"
    /\ GetLastUpdateID(roundUpdates) = 0
    /\ nsPc' = "ready"
    /\ NewStateRoundID
    /\ UNCHANGED <<ndfVars,
                   storedUpdateID, updateID, updateMux, pc, oldUpdateID, ticket,
                   history, signing, roundUpdatesToAddCh, futureRoundUpdates,
                   nextID, roundUpdates, restarts, emitted,
                   schedVars>>

\* state.go:169,193  updateID != 0: no dummy, NewState returns.
NewStateReturn ==
    /\ nsPc = "loaded"
    /\ updateID # 0
    /\ nsPc' = "ready"
    /\ NewStateRoundID
    /\ UNCHANGED <<ndfVars,
                   storedUpdateID, updateID, updateMux, pc, oldUpdateID, ticket,
                   history, signing, roundUpdatesToAddCh, futureRoundUpdates,
                   nextID, roundUpdates, restarts, emitted,
                   schedVars>>

\* The process stops and NewState (state.go:92-194) builds a fresh
\* NetworkState on the same storage: everything in memory is lost, the State
\* rows stay.
Restart ==
    /\ restarts < MaxRestarts
    /\ nsPc = "ready"
    /\ restarts' = restarts + 1
    /\ updateID' = 0
    /\ updateMux' = 0
    /\ pc' = [c \in Callers |-> "idle"]
    /\ oldUpdateID' = [c \in Callers |-> 0]
    /\ ticket' = [c \in Callers |-> 0]
    /\ history' = <<>>
    /\ signing' = {}
    /\ emitted' = {}
    /\ roundUpdatesToAddCh' = <<>>
    /\ futureRoundUpdates' = {}
    /\ nextID' = 0
    /\ roundUpdates' = <<>>
    /\ nsPc' = "start"
    /\ stateRoundID' = 0
    /\ UNCHANGED <<ndfVars, storedRoundID,
                   storedUpdateID, schedVars>>

\* state.go:585-589  IncrementRoundID, called by the serial scheduling
\* thread: the counter is incremented in memory and setId persists the new
\* value (dbOk: whether UpsertState succeeds); the old value is returned.
IncrementRoundID(dbOk) ==
    /\ nsPc = "ready"
    /\ stateRoundID < MaxStored + 2
    /\ stateRoundID' = stateRoundID + 1
    /\ storedRoundID' = IF dbOk THEN stateRoundID + 1 ELSE storedRoundID
    /\ UNCHANGED <<ndfVars, storedUpdateID, updateID, updateMux, pc,
                   oldUpdateID, ticket, history, signing, roundUpdatesToAddCh,
                   futureRoundUpdates, nextID, roundUpdates, nsPc, restarts,
                   emitted, schedVars>>

\* ------------------------------------------------------------ node.State

\* node.State.Update validates a reported activity against the transition
\* table: the activities it may follow, whether it needs a round, and the
\* phases that round may be in.
ValidFrom(a) ==
    CASE a = "NOT_STARTED" -> {}
      [] a = "WAITING" -> {"NOT_STARTED", "COMPLETED", "ERROR"}
      [] a = "PRECOMPUTING" -> {"WAITING"}
      [] a = "STANDBY" -> {"PRECOMPUTING"}
      [] a = "REALTIME" -> {"STANDBY"}
      [] a = "COMPLETED" -> {"REALTIME"}
      [] a = "ERROR" -> Activities \ {"ERROR"}

NeedsRound(a) == a \in {"PRECOMPUTING", "STANDBY", "REALTIME", "COMPLETED"}

NeedsNoRound(a) == a \in {"NOT_STARTED", "WAITING"}

RequiredPhases(a) ==
    CASE a = "PRECOMPUTING" -> {"PRECOMPUTING"}
      [] a = "STANDBY" -> {"PRECOMPUTING"}
      [] a = "REALTIME" -> {"QUEUED", "REALTIME"}
      [] a = "COMPLETED" -> {"REALTIME"}
      [] OTHER -> {}

\* node.State.Update that checks the activity it follows and nothing about
\* the round.
NodeUpdateIgnoresRound(n, a) ==
    IF a = activity[n] THEN [update |-> FALSE, err |-> FALSE]
    ELSE IF activity[n] \notin ValidFrom(a)
         THEN [update |-> FALSE, err |-> TRUE]
         ELSE [update |-> TRUE, err |-> FALSE]

\* node.State.Update(newActivity): (updated, error).  The same activity is
\* neither an update nor an error; an invalid transition changes nothing.
NodeUpdate(n, a) ==
    IF a = activity[n] THEN [update |-> FALSE, err |-> FALSE]
    ELSE IF \/ activity[n] \notin ValidFrom(a)
            \/ NeedsRound(a) /\ currentRound[n] = 0
            \/ NeedsRound(a) /\ currentRound[n] # 0
                  /\ rounds[currentRound[n]].phase \notin RequiredPhases(a)
            \/ NeedsNoRound(a) /\ currentRound[n] # 0
         THEN [update |-> FALSE, err |-> TRUE]
         ELSE [update |-> TRUE, err |-> FALSE]

\* ------------------------------------------------------------------ Poll

\* A poll message: the reported activity and the RoundError it carries
\* (errId = -1: msg.Error is nil; errNode: the node named in Error.NodeId;
\* signer: the node whose key made Error.Signature).
Msgs == [activity : Activities, errId : {-1} \cup (0..MaxRounds),
         errNode : Nodes, signer : Nodes]

\* part_002:303-314  the signature of the error is verified with the public
\* key of the host named in the error.
SignatureVerifies(msg) == msg.signer = msg.errNode

\* verifyError without the check that the error's round is the round of the
\* polling node.
verifyErrorAnyRound(n, msg) ==
    \/ msg.errId = -1
    \/ SignatureVerifies(msg)

\* part_002:286-317  verifyError: TRUE when it returns nil.
verifyError(n, msg) ==
    \/ msg.errId = -1
    \/ /\ msg.errId # 0 => (currentRound[n] # 0 /\ msg.errId = currentRound[n])
       /\ SignatureVerifies(msg)

\* state.go:520-527  SendUpdateNotification with a channel that silently
\* drops the notification when it is full.
SendDropsSilently(ch, nun) ==
    IF Len(ch) < UpdateBufferLength
    THEN [ch |-> Append(ch, nun), ok |-> TRUE]
    ELSE [ch |-> ch, ok |-> TRUE]

\* SendUpdateNotification that makes room in a full channel by dropping the
\* oldest notification.
SendOverwritesOldest(ch, nun) ==
    IF Len(ch) < UpdateBufferLength
    THEN [ch |-> Append(ch, nun), ok |-> TRUE]
    ELSE [ch |-> Append(Tail(ch), nun), ok |-> TRUE]

\* state.go:520-527  SendUpdateNotification: a non-blocking send; a full
\* channel is an error.
SendUpdateNotification(ch, nun) ==
    IF Len(ch) < UpdateBufferLength
    THEN [ch |-> Append(ch, nun), ok |-> TRUE]
    ELSE [ch |-> ch, ok |-> FALSE]

\* part_002:118-156  Poll once the polling lock is taken, with the update
\* taken for granted: the activity is stored and the notification sent
\* whatever node.State.Update answered.
PollIgnoresUpdateFlag(n, msg) ==
    LET res == NodeUpdate(n, msg.activity)
        nun == [node |-> n, from |-> activity[n], to |-> msg.activity,
                toStatus |-> status[n], errId |-> msg.errId]
        snd == SendUpdateNotification(update, nun)
    IN  [err |-> res.err \/ ~snd.ok, updated |-> TRUE,
         activity |-> [activity EXCEPT ![n] = msg.activity],
         currentRound |-> currentRound, update |-> snd.ch, sent |-> snd.ok,
         lock |-> 1]

\* part_002:118-156  Poll once the polling lock is taken: what it answers
\* (err), whether the activity was updated, and the state it leaves.  When
\* node.State.Update reports no update the lock is released and its error
\* returned; an ERROR with Id 0 is not reported to the scheduler; any other
\* update is sent and the lock stays held for the handler.
PollOutcome(n, msg) ==
    LET res == NodeUpdate(n, msg.activity)
        nun == [node |-> n, from |-> activity[n], to |-> msg.activity,
                toStatus |-> status[n], errId |-> msg.errId]
        r   == currentRound[n]
        snd == SendUpdateNotification(update, nun)
    IN  IF ~res.update
        THEN [err |-> res.err, updated |-> FALSE, activity |-> activity,
              currentRound |-> currentRound, update |-> update,
              sent |-> FALSE, lock |-> 0]
        ELSE IF msg.activity = "ERROR" /\ msg.errId = 0
        THEN [err |-> FALSE, updated |-> TRUE,
              activity |-> [activity EXCEPT ![n] = msg.activity],
              currentRound |->
                  IF r # 0 /\ rounds[r].phase \in {"COMPLETED", "FAILED"}
                  THEN [currentRound EXCEPT ![n] = 0]
                  ELSE currentRound,
              update |-> update, sent |-> FALSE, lock |-> 0]
        ELSE [err |-> ~snd.ok, updated |-> TRUE,
              activity |-> [activity EXCEPT ![n] = msg.activity],
              currentRound |-> currentRound, update |-> snd.ch,
              sent |-> snd.ok, lock |-> 1]

\* part_002:57-156  the poll of node n from the banned check on, once the
\* polling lock is taken.
PollBody(n, msg) ==
    /\ status[n] # "Banned"
    /\ ~(msg.activity = "ERROR" /\ msg.errId = -1)
    /\ msg.activity # "NOT_STARTED"
    /\ verifyError(n, msg)
    /\ LET o == PollOutcome(n, msg)
       IN  /\ activity' = o.activity
           /\ currentRound' = o.currentRound
           /\ update' = o.update
           /\ pollingLock' = [pollingLock EXCEPT ![n] = o.lock]
           /\ accepted' = IF o.updated
                          THEN [accepted EXCEPT ![n] = Append(@, msg.activity)]
                          ELSE accepted
           /\ enqueued' = IF o.sent
                          THEN [enqueued EXCEPT ![n] = Append(@, msg.activity)]
                          ELSE enqueued
    /\ UNCHANGED <<ndfVars, logVars, delayVars,
                   status, cur, schedPc, pool, rounds, roundID,
                   tracker, newRoundChan, starterPc, errorChan, roundLog,
                   standbyReported, bannedHandled,
                   handlerError>>

\* Poll without n.GetPollingLock().Lock().
PollNoLock(n, msg) == PollBody(n, msg)

\* part_002:28-157  RegistrationImpl.Poll; line 118 blocks until the polling
\* lock of the node is free.
Poll(n, msg) == pollingLock[n] = 0 /\ PollBody(n, msg)

\* The ban of a node: the polling lock is taken, the status becomes Banned
\* and a notification with ToStatus = Banned is sent to the scheduler.
BanNode(n) ==
    /\ status[n] # "Banned"
    /\ pollingLock[n] = 0
    /\ Len(update) < UpdateBufferLength
    /\ status' = [status EXCEPT ![n] = "Banned"]
    /\ pollingLock' = [pollingLock EXCEPT ![n] = 1]
    /\ update' = Append(update, [node |-> n, from |-> "NOT_STARTED",
                                 to |-> "NOT_STARTED", toStatus |-> "Banned",
                                 errId |-> -1])
    /\ UNCHANGED <<ndfVars, logVars, delayVars,
                   activity, currentRound, cur, schedPc, pool, rounds,
                   roundID, tracker, newRoundChan, starterPc, errorChan,
                   roundLog, accepted, enqueued, standbyReported,
                   bannedHandled,
                   handlerError>>

\* ----------------------------------------------------------- round.State

\* errors: the RoundErrors appended to the round, each named by the node
\* whose update carried it (0: the one permissioning signs for a ban).
NoRound == [phase |-> "NONE", topology |-> <<>>, batchSize |-> 0, ready |-> 0,
            errors |-> <<>>]

\* round.State.Update: the phase only moves to a greater one (FAILED is the
\* greatest); a transition resets the readiness counter.
RoundUpdate(rd, r, ph) ==
    IF PhaseOrd(ph) <= PhaseOrd(rd[r].phase)
    THEN [ok |-> FALSE, rd |-> rd]
    ELSE [ok |-> TRUE, rd |-> [rd EXCEPT ![r].phase = ph, ![r].ready = 0]]

\* round.State.NodeIsReadyForTransition: count one more report; TRUE when
\* every member of the topology has reported.
NodeIsReadyForTransition(rd, r) ==
    [rd |-> [rd EXCEPT ![r].ready = @ + 1],
     complete |-> rd[r].ready + 1 = Len(rd[r].topology)]

\* waitingPool.Add: append to the online partition unless already there.
PoolAdd(pl, n) == IF n \in Range(pl) THEN pl ELSE Append(pl, n)

\* waitingPool.Ban: remove the node from the pool.
PoolBan(pl, n) == SelectSeq(pl, LAMBDA m : m # n)

\* ------------------------------------------------------ HandleNodeUpdates

\* The handler works on the scheduler's view of the state:
\*   cr  node -> current round       rd   round map       pl  waiting pool
\*   tr  active-round tracker        uid  updateID        stored, log, sig, em
\*   err  an error is returned       path  the exit taken
HandlerState ==
    [cr |-> currentRound, rd |-> rounds, pl |-> pool, tr |-> tracker,
     uid |-> updateID, stored |-> storedUpdateID, log |-> roundLog,
     sig |-> signing, em |-> emitted, err |-> FALSE, path |-> "none",
     unlocks |-> 0]

Return(s, path) == [s EXCEPT !.path = path]

ReturnErr(s, path) == [s EXCEPT !.path = path, !.err = TRUE]

\* AddRoundUpdate stamping the update with the incremented counter instead
\* of the value IncrementUpdateID returns.
AddRoundUpdateNewID(s, r, dbOk) ==
    IF dbOk
    THEN [s EXCEPT !.uid = @ + 1, !.stored = s.uid + 1,
                   !.log = Append(@, [uid |-> s.uid + 1, rid |-> r,
                                      phase |-> s.rd[r].phase,
                                      batchSize |-> s.rd[r].batchSize]),
                   !.sig = @ \cup {s.uid + 1}, !.em = @ \cup {s.uid + 1}]
    ELSE [s EXCEPT !.uid = @ + 1, !.err = TRUE]

\* state.go:284-322  AddRoundUpdate(r.BuildRoundInfo()) as one step: the UID
\* is consumed; when setId fails nothing is emitted and the error returned.
AddRoundUpdate(s, r, dbOk) ==
    IF dbOk
    THEN [s EXCEPT !.uid = @ + 1, !.stored = s.uid + 1,
                   !.log = Append(@, [uid |-> s.uid, rid |-> r,
                                      phase |-> s.rd[r].phase,
                                      batchSize |-> s.rd[r].batchSize]),
                   !.sig = @ \cup {s.uid}, !.em = @ \cup {s.uid}]
    ELSE [s EXCEPT !.uid = @ + 1, !.err = TRUE]

\* nodeStateChange.go:227-284  killRound; the errors of InsertRoundMetric and
\* InsertRoundError are logged and dropped.
killRound(s, r, roundError, env) ==
    LET s1 == [s EXCEPT !.rd[r].errors = Append(@, roundError)]
        u  == RoundUpdate(s1.rd, r, "FAILED")
        s2 == [s1 EXCEPT !.rd = u.rd, !.tr = IF u.ok THEN @ \ {r} ELSE @]
        s3 == AddRoundUpdate(s2, r, env.dbOk)
    IN  IF s3.err THEN Return(s3, "killRoundErr") ELSE Return(s3, "killRound")

\* nodeStateChange.go:46-63  update.ToStatus == node.Banned
HandleBan(s, u, env) ==
    LET n == u.node
        r == s.cr[n]
    IN  IF r # 0
        THEN killRound([s EXCEPT !.cr[n] = 0], r, 0, env)
        ELSE Return([s EXCEPT !.pl = PoolBan(@, n)], "banPool")

\* The WAITING branch with the node put at the front of the pool.
HandleWaitingFront(s, u, env) ==
    Return([s EXCEPT !.pl = IF u.node \in Range(@) THEN @ ELSE <<u.node>> \o @],
           "waiting")

\* nodeStateChange.go:69-77  WAITING (no producer of FromStatus = Inactive
\* exists, so the node is added to the online pool)
HandleWaiting(s, u, env) == Return([s EXCEPT !.pl = PoolAdd(@, u.node)], "waiting")

\* nodeStateChange.go:79-95  PRECOMPUTING
HandlePrecomputing(s, u, env) ==
    IF s.cr[u.node] = 0 THEN ReturnErr(s, "noRound")
    ELSE Return(s, "precomputing")

\* The transition of the STANDBY branch with an update issued after each of
\* the two phase changes.
StandbyTransitionTwoUpdates(s, r, env) ==
    LET u1 == RoundUpdate(s.rd, r, "STANDBY")
        s1 == AddRoundUpdate([s EXCEPT !.rd = u1.rd], r, env.dbOk)
        u2 == RoundUpdate(s1.rd, r, "QUEUED")
    IN  IF ~u1.ok THEN ReturnErr(s, "standbyUpdateErr")
        ELSE IF s1.err THEN Return(s1, "standbyAddErr")
        ELSE IF ~u2.ok THEN ReturnErr(s1, "queuedUpdateErr")
        ELSE LET s3 == AddRoundUpdate([s1 EXCEPT !.rd = u2.rd], r, env.dbOk)
             IN  IF s3.err THEN Return(s3, "standbyAddErr")
                 ELSE Return(s3, "standbyComplete")

\* nodeStateChange.go:104-131  the transition of the STANDBY branch once the
\* round is found complete: Update(STANDBY), Update(QUEUED), AddRoundUpdate.
StandbyTransition(s, r, env) ==
    LET u1 == RoundUpdate(s.rd, r, "STANDBY")
        u2 == RoundUpdate(u1.rd, r, "QUEUED")
    IN  IF ~u1.ok THEN ReturnErr(s, "standbyUpdateErr")
        ELSE IF ~u2.ok THEN ReturnErr([s EXCEPT !.rd = u1.rd], "queuedUpdateErr")
        ELSE LET s3 == AddRoundUpdate([s EXCEPT !.rd = u2.rd], r, env.dbOk)
             IN  IF s3.err THEN Return(s3, "standbyAddErr")
                 ELSE Return(s3, "standbyComplete")

\* The STANDBY branch without the stateComplete test.
HandleStandbyAlways(s, u, env) ==
    LET r == s.cr[u.node]
    IN  IF r = 0 THEN ReturnErr(s, "noRound")
        ELSE StandbyTransition(
                 [s EXCEPT !.rd = NodeIsReadyForTransition(s.rd, r).rd], r, env)

\* nodeStateChange.go:96-132  STANDBY
HandleStandby(s, u, env) ==
    LET r == s.cr[u.node]
    IN  IF r = 0 THEN ReturnErr(s, "noRound")
        ELSE LET ready == NodeIsReadyForTransition(s.rd, r)
                 s1    == [s EXCEPT !.rd = ready.rd]
             IN  IF ready.complete
                 THEN StandbyTransition(s1, r, env)
                 ELSE Return(s1, "standby")

\* The REALTIME branch with the n.ClearRound() of the COMPLETED branch.
HandleRealtimeClears(s, u, env) ==
    LET r == s.cr[u.node]
    IN  IF r = 0 THEN ReturnErr(s, "noRound")
        ELSE IF s.rd[r].phase # "REALTIME"
        THEN LET u1 == RoundUpdate(s.rd, r, "REALTIME")
             IN  IF ~u1.ok THEN ReturnErr(s, "realtimeUpdateErr")
                 ELSE Return([s EXCEPT !.rd = u1.rd, !.cr[u.node] = 0], "realtimeFirst")
        ELSE Return([s EXCEPT !.cr[u.node] = 0], "realtime")

\* nodeStateChange.go:133-151  REALTIME
HandleRealtime(s, u, env) ==
    LET r == s.cr[u.node]
    IN  IF r = 0 THEN ReturnErr(s, "noRound")
        ELSE IF s.rd[r].phase # "REALTIME"
        THEN LET u1 == RoundUpdate(s.rd, r, "REALTIME")
             IN  IF ~u1.ok THEN ReturnErr(s, "realtimeUpdateErr")
                 ELSE Return([s EXCEPT !.rd = u1.rd], "realtimeFirst")
        ELSE Return(s, "realtime")

\* The COMPLETED branch without the stateComplete test: every report
\* completes the round.
HandleCompletedAlways(s, u, env) ==
    LET n == u.node
        r == s.cr[n]
    IN  IF r = 0 THEN ReturnErr(s, "noRound")
        ELSE LET s1 == [s EXCEPT !.cr[n] = 0,
                                 !.rd = NodeIsReadyForTransition(s.rd, r).rd]
                 u1 == RoundUpdate(s1.rd, r, "COMPLETED")
             IN  IF ~u1.ok THEN ReturnErr(s1, "completedUpdateErr")
                 ELSE LET s3 == AddRoundUpdate([s1 EXCEPT !.rd = u1.rd], r,
                                               env.dbOk)
                      IN  IF s3.err THEN Return(s3, "completedAddErr")
                          ELSE Return([s3 EXCEPT !.tr = @ \ {r}],
                                      "completedComplete")

\* nodeStateChange.go:152-189  COMPLETED; the result of StoreRoundMetric is
\* the handler's result.
HandleCompleted(s, u, env) ==
    LET n == u.node
        r == s.cr[n]
    IN  IF r = 0 THEN ReturnErr(s, "noRound")
        ELSE LET ready == NodeIsReadyForTransition(s.rd, r)
                 s1    == [s EXCEPT !.cr[n] = 0, !.rd = ready.rd]
                 u1    == RoundUpdate(s1.rd, r, "COMPLETED")
             IN  IF ~ready.complete THEN Return(s1, "completed")
                 ELSE IF ~u1.ok THEN ReturnErr(s1, "completedUpdateErr")
                 ELSE LET s3 == AddRoundUpdate([s1 EXCEPT !.rd = u1.rd], r,
                                               env.dbOk)
                          s4 == [s3 EXCEPT !.tr = @ \ {r}]
                      IN  IF s3.err THEN Return(s3, "completedAddErr")
                          ELSE IF ~env.metricOk
                          THEN ReturnErr(s4, "storeMetricErr")
                          ELSE Return(s4, "completedComplete")

\* The ERROR branch without n.ClearRound().
HandleErrorKeepsRound(s, u, env) ==
    LET n == u.node
        r == s.cr[n]
    IN  IF r # 0 THEN killRound(s, r, n, env)
        ELSE Return(s, "errorNoRound")

\* nodeStateChange.go:190-200  ERROR
HandleError(s, u, env) ==
    LET n == u.node
        r == s.cr[n]
    IN  IF r # 0 THEN killRound([s EXCEPT !.cr[n] = 0], r, n, env)
        ELSE Return(s, "errorNoRound")

\* The handler without the early return of lines 38-41 for a FAILED round.
HandleBodyNoFailedCheck(s, u, env) ==
    IF u.toStatus = "Banned" THEN HandleBan(s, u, env)
    ELSE CASE u.to = "NOT_STARTED" -> Return(s, "notStarted")
           [] u.to = "WAITING" -> HandleWaiting(s, u, env)
           [] u.to = "PRECOMPUTING" -> HandlePrecomputing(s, u, env)
           [] u.to = "STANDBY" -> HandleStandby(s, u, env)
           [] u.to = "REALTIME" -> HandleRealtime(s, u, env)
           [] u.to = "COMPLETED" -> HandleCompleted(s, u, env)
           [] u.to = "ERROR" -> HandleError(s, u, env)

\* nodeStateChange.go:37-203  the body of HandleNodeUpdates.
HandleBody(s, u, env) ==
    LET n == u.node
        r == s.cr[n]
        roundErrored == r # 0 /\ s.rd[r].phase = "FAILED" /\ u.to # "ERROR"
    IN  IF roundErrored THEN Return(s, "roundErrored")
        ELSE IF u.toStatus = "Banned" THEN HandleBan(s, u, env)
        ELSE CASE u.to = "NOT_STARTED" -> Return(s, "notStarted")
               [] u.to = "WAITING" -> HandleWaiting(s, u, env)
               [] u.to = "PRECOMPUTING" -> HandlePrecomputing(s, u, env)
               [] u.to = "STANDBY" -> HandleStandby(s, u, env)
               [] u.to = "REALTIME" -> HandleRealtime(s, u, env)
               [] u.to = "COMPLETED" -> HandleCompleted(s, u, env)
               [] u.to = "ERROR" -> HandleError(s, u, env)

\* round.State.AppendClientErrors called on the pointer GetCurrentRound
\* returned: for a node without a round the pointer is nil and the call
\* dereferences it.
AppendClientErrorsPanics(s, u) == s.cr[u.node] = 0

\* nodeStateChange.go:29-63  how HandleNodeUpdates ends for a notification
\* whose ClientErrors are empty or not: "nil", "error" or "panic".
HandlerExit(s, u, clientErrors, env) ==
    LET r == s.cr[u.node]
        roundErrored == r # 0 /\ s.rd[r].phase = "FAILED" /\ u.to # "ERROR"
    IN  IF roundErrored THEN "nil"
        ELSE IF clientErrors /\ AppendClientErrorsPanics(s, u) THEN "panic"
        ELSE IF HandleBody(s, u, env).err THEN "error"
        ELSE "nil"

\* A handler that unlocks before each plain return instead of deferring:
\* the returns that carry an error leave without Unlock.
UnlocksOnPlainReturn(res) == IF res.err THEN 0 ELSE 1

\* nodeStateChange.go:36  defer n.GetPollingLock().Unlock(): the number of
\* Unlock calls made on the exit described by res.
DeferredUnlocks(res) == 1

\* nodeStateChange.go:29-204  HandleNodeUpdates: the body, then the deferred
\* Unlock of the node's polling lock.
HandleNodeUpdates(s, u, env) ==
    LET res == HandleBody(s, u, env)
    IN  [res EXCEPT !.unlocks = DeferredUnlocks(res)]

\* -------------------------------------------------------------- scheduler

\* The queue q without its elements up to and including the first a.
RECURSIVE PopThrough(_, _)
PopThrough(q, a) ==
    IF q = <<>> THEN <<>>
    ELSE IF Head(q) = a THEN Tail(q)
    ELSE PopThrough(Tail(q), a)

\* The notifications for node n that are in the channel or being handled.
InFlight(n) ==
    (IF cur.node = n THEN <<cur>> ELSE <<>>)
        \o SelectSeq(update, LAMBDA u : u.node = n)

\* schedule.go:96-97  case err := <-errorChan: return err
SchedulerError ==
    /\ schedPc = "select"
    /\ errorChan # <<>>
    /\ errorChan' = Tail(errorChan)
    /\ schedPc' = "exited"
    /\ UNCHANGED <<ndfVars, logVars, delayVars,
                   activity, status, currentRound, pollingLock, update,
                   cur, pool, rounds, roundID, tracker, newRoundChan,
                   starterPc, roundLog, accepted, enqueued, standbyReported,
                   bannedHandled,
                   handlerError>>

\* schedule.go:98  case update = <-state.GetNodeUpdateChannel()
SchedulerReceive ==
    /\ schedPc = "select"
    /\ update # <<>>
    /\ cur' = Head(update)
    /\ update' = Tail(update)
    /\ schedPc' = "handle"
    /\ UNCHANGED <<ndfVars, logVars, delayVars,
                   activity, status, currentRound, pollingLock, pool,
                   rounds, roundID, tracker, newRoundChan, starterPc,
                   errorChan, roundLog, accepted, enqueued, standbyReported,
                   bannedHandled,
                   handlerError>>

\* createRound: the first TeamSize nodes of the pool, in insertion order,
\* leave the pool and become the topology of the protoRound.
createRound(pl, rid) ==
    [pool |-> SubSeq(pl, TeamSize + 1, Len(pl)),
     round |-> [ID |-> rid, topology |-> SubSeq(pl, 1, TeamSize),
               batchSize |-> BatchSize]]

\* The scheduler loop without the test of the handler's error.
IgnoresHandlerError(res) == "select"

\* schedule.go:102-105  if err != nil { return err }: where the loop is after
\* the handler returned res.
AfterHandle(res) == IF res.err THEN "exited" ELSE "select"

\* The pool test with > in place of ==.
PoolOverFull(pl) == Len(pl) > TeamSize

\* schedule.go:108  if pool.Len() == int(params.TeamSize)
PoolIsFull(pl) == Len(pl) = TeamSize

\* schedule.go:101-116  the rest of one iteration of the scheduler loop:
\* handle the update; on an error return it; when the pool is full create a
\* round and send it to the round starter.
SchedulerHandleBuffered(env, cap, chanLen) ==
    /\ schedPc = "handle"
    /\ LET n   == cur.node
           res == HandleNodeUpdates(HandlerState, cur, env)
           full == ~res.err /\ PoolIsFull(res.pl)
           new == createRound(res.pl, roundID)
           isReport == cur.toStatus # "Banned"
       IN  /\ full => (roundID <= cap /\ Len(newRoundChan) < chanLen)
           /\ currentRound' = res.cr
           /\ rounds' = res.rd
           /\ tracker' = res.tr
           /\ updateID' = res.uid
           /\ storedUpdateID' = res.stored
           /\ roundLog' = res.log
           /\ signing' = res.sig
           /\ emitted' = res.em
           /\ pollingLock' = [pollingLock EXCEPT ![n] = @ - res.unlocks]
           /\ schedPc' = AfterHandle(res)
           /\ handlerError' = IF res.err THEN res.path ELSE handlerError
           /\ pool' = IF full THEN new.pool ELSE res.pl
           /\ roundID' = IF full THEN roundID + 1 ELSE roundID
           /\ newRoundChan' = IF full THEN Append(newRoundChan, new.round)
                              ELSE newRoundChan
           /\ accepted' = IF isReport
                          THEN [accepted EXCEPT ![n] = PopThrough(@, cur.to)]
                          ELSE accepted
           /\ enqueued' = IF isReport
                          THEN [enqueued EXCEPT ![n] = PopThrough(@, cur.to)]
                          ELSE enqueued
           /\ standbyReported' =
                  IF isReport /\ cur.to = "STANDBY" /\ res.path # "roundErrored"
                     /\ currentRound[n] # 0
                  THEN [standbyReported EXCEPT ![currentRound[n]] = @ \cup {n}]
                  ELSE standbyReported
           /\ bannedHandled' = IF isReport THEN bannedHandled
                               ELSE bannedHandled \cup {n}
    /\ cur' = NoUpdate
    /\ UNCHANGED <<ndfVars, delayVars, stateRoundID, storedRoundID,
                   updateMux, pc, oldUpdateID, ticket, history,
                   roundUpdatesToAddCh, futureRoundUpdates, nextID,
                   roundUpdates, nsPc, restarts, activity, status, update,
                   starterPc, errorChan>>

\* The scheduler loop with newRoundChan at its capacity of the program, in
\* a run that creates at most cap rounds.
SchedulerHandleUpTo(env, cap) ==
    SchedulerHandleBuffered(env, cap, NewRoundChanLen)

\* The scheduler loop in a run that creates at most MaxRounds rounds.
SchedulerHandle(env) == SchedulerHandleUpTo(env, MaxRounds)

\* ----------------------------------------------------------- round starter

\* SetRound that overwrites the round a node already has.
SetRoundsOverwrites(cr, topology, r) ==
    [cr |-> [n \in Nodes |-> IF n \in Range(topology) THEN r ELSE cr[n]],
     ok |-> TRUE]

\* node.State.SetRound for the nodes of a topology in order: the first node
\* that already has a round stops the assignment with an error.
RECURSIVE SetRounds(_, _, _)
SetRounds(cr, topology, r) ==
    IF topology = <<>> THEN [cr |-> cr, ok |-> TRUE]
    ELSE IF cr[Head(topology)] # 0 THEN [cr |-> cr, ok |-> FALSE]
    ELSE SetRounds([cr EXCEPT ![Head(topology)] = r], Tail(topology), r)

\* startRound: a PENDING round with the topology of the protoRound; every
\* node is given the round; the round moves to PRECOMPUTING, the update is
\* issued and the round is tracked as active.  An error goes to errorChan.
startRound(s, newRound, env) ==
    LET r  == newRound.ID
        s1 == [s EXCEPT !.rd[r] = [phase |-> "PENDING",
                                   topology |-> newRound.topology,
                                   batchSize |-> newRound.batchSize,
                                   ready |-> 0, errors |-> <<>>]]
        as == SetRounds(s1.cr, newRound.topology, r)
        s2 == [s1 EXCEPT !.cr = as.cr]
        u  == RoundUpdate(s2.rd, r, "PRECOMPUTING")
        s3 == AddRoundUpdate([s2 EXCEPT !.rd = u.rd], r, env.dbOk)
    IN  IF ~as.ok THEN ReturnErr(s2, "setRoundErr")
        ELSE IF s3.err THEN Return(s3, "startAddErr")
        ELSE Return([s3 EXCEPT !.tr = @ \cup {r}], "started")

\* schedule.go:75-86  one iteration of the round starter: receive a
\* protoRound, start it, leave the loop on an error.
RoundStarter(env) ==
    /\ starterPc = "running"
    /\ newRoundChan # <<>>
    /\ LET res == startRound(HandlerState, Head(newRoundChan), env)
       IN  /\ currentRound' = res.cr
           /\ rounds' = res.rd
           /\ tracker' = res.tr
           /\ updateID' = res.uid
           /\ storedUpdateID' = res.stored
           /\ roundLog' = res.log
           /\ signing' = res.sig
           /\ emitted' = res.em
           /\ starterPc' = IF res.err THEN "stopped" ELSE "running"
           /\ errorChan' = IF res.err THEN Append(errorChan, res.path)
                           ELSE errorChan
    /\ newRoundChan' = Tail(newRoundChan)
    /\ UNCHANGED <<ndfVars, delayVars, stateRoundID, storedRoundID,
                   updateMux, pc, oldUpdateID, ticket, history,
                   roundUpdatesToAddCh, futureRoundUpdates, nextID,
                   roundUpdates, nsPc, restarts, activity, status,
                   pollingLock, update, cur, schedPc, pool, roundID,
                   accepted, enqueued, standbyReported, bannedHandled,
                   handlerError>>

\* ------------------------------------------- round starter: minimum delay

\* schedule.go:77-79  the duration the round starter sleeps for when a
\* protoRound is received timeDiff after lastRound: timeDiff itself when it
\* is below the minimum delay, nothing otherwise.
StarterSleep(timeDiff) == IF timeDiff < MinimumDelay THEN timeDiff ELSE 0

\* schedule.go:115  newRoundChan <- newRound
SendProtoRound ==
    /\ queued + Len(startTimes) < MaxStarts
    /\ queued' = queued + 1
    /\ UNCHANGED <<now, lastRound, sleepUntil, delayPc, startTimes>>

\* schedule.go:75-79  for newRound := range newRoundChan: a protoRound is
\* received, timeDiff := time.Now().Sub(lastRound) is taken and the sleep, if
\* any, begins.
StarterReceive ==
    /\ delayPc = "range"
    /\ queued > 0
    /\ queued' = queued - 1
    /\ LET timeDiff == now - lastRound
       IN  IF timeDiff < MinimumDelay
           THEN /\ sleepUntil' = now + StarterSleep(timeDiff)
                /\ delayPc' = "sleep"
           ELSE /\ delayPc' = "start"
                /\ UNCHANGED sleepUntil
    /\ UNCHANGED <<now, lastRound, startTimes>>

\* schedule.go:78  time.Sleep returns once at least its duration has passed.
StarterWake ==
    /\ delayPc = "sleep"
    /\ now >= sleepUntil
    /\ delayPc' = "start"
    /\ UNCHANGED <<now, lastRound, sleepUntil, queued, startTimes>>

\* schedule.go:80-85  lastRound = time.Now(); err = startRound(...); an
\* error leaves the loop.
StarterStart(ok) ==
    /\ delayPc = "start"
    /\ lastRound' = now
    /\ startTimes' = Append(startTimes, now)
    /\ delayPc' = IF ok THEN "range" ELSE "exited"
    /\ UNCHANGED <<now, sleepUntil, queued>>

\* A millisecond passes.
Tick ==
    /\ now < MaxTime
    /\ now' = now + 1
    /\ UNCHANGED <<lastRound, sleepUntil, delayPc, queued, startTimes>>

\* -------------------------------------------------------------------- NDF

\* s[:i] ++ s[i+1:] for the 0-based index i (state.go:410-411).
RemoveAt(s, i) == SubSeq(s, 1, i) \o SubSeq(s, i + 2, Len(s))

\* The prune loop with line 412 left out: after a removal the index moves on,
\* so the record that slid into the freed position is not examined.
RECURSIVE PruneLoopSkipsNext(_, _, _, _)
PruneLoopSkipsNext(nodes, gateways, prune, i) ==
    IF i >= Len(nodes) THEN [nodes |-> nodes, gateways |-> gateways]
    ELSE LET k == nodes[i + 1].id
         IN  IF prune[k] = "prune"
             THEN PruneLoopSkipsNext(RemoveAt(nodes, i), RemoveAt(gateways, i),
                                     prune, i + 1)
             ELSE PruneLoopSkipsNext(
                      [nodes EXCEPT ![i + 1].status =
                           IF prune[k] = "stale" THEN "Stale" ELSE "Active"],
                      gateways, prune, i + 1)

\* The prune loop with line 411 left out: only the node is removed.
RECURSIVE PruneNodesOnly(_, _, _, _)
PruneNodesOnly(nodes, gateways, prune, i) ==
    IF i >= Len(nodes) THEN [nodes |-> nodes, gateways |-> gateways]
    ELSE LET k == nodes[i + 1].id
         IN  IF prune[k] = "prune"
             THEN PruneNodesOnly(RemoveAt(nodes, i), gateways, prune, i)
             ELSE PruneNodesOnly(
                      [nodes EXCEPT ![i + 1].status =
                           IF prune[k] = "stale" THEN "Stale" ELSE "Active"],
                      gateways, prune, i + 1)

\* state.go:404-420  the prune loop from index i on: a node whose entry is
\* true is removed together with the gateway at the same index and the index
\* is visited again; an entry of false marks the node Stale, no entry Active.
RECURSIVE PruneLoop(_, _, _, _)
PruneLoop(nodes, gateways, prune, i) ==
    IF i >= Len(nodes) THEN [nodes |-> nodes, gateways |-> gateways]
    ELSE LET k == nodes[i + 1].id
         IN  IF prune[k] = "prune"
             THEN PruneLoop(RemoveAt(nodes, i), RemoveAt(gateways, i), prune, i)
             ELSE PruneLoop(
                      [nodes EXCEPT ![i + 1].status =
                           IF prune[k] = "stale" THEN "Stale" ELSE "Active"],
                      gateways, prune, i + 1)

\* state.go:374-377  UpdateInternalNdf: the NDF is stamped with the current
\* time and a deep copy becomes the canonical NDF.
UpdateInternalNdf(newNdf) ==
    /\ clock < MaxClock
    /\ unprunedNdf' = [newNdf EXCEPT !.ts = clock]
    /\ \E c \in {clock, clock + 1} : clock' = c

\* Node registration: the node record and the gateway record of a new
\* operator are appended to the canonical NDF together.
RegisterNode(k, a) ==
    /\ \A i \in DOMAIN unprunedNdf.nodes : unprunedNdf.nodes[i].id # k
    /\ \A i \in DOMAIN unprunedNdf.gateways : unprunedNdf.gateways[i].id # k
    /\ UpdateInternalNdf(
           [unprunedNdf EXCEPT
               !.nodes = Append(@, [id |-> k, addr |-> a, status |-> "Active"]),
               !.gateways = Append(@, [id |-> k, addr |-> a])])
    /\ serverAddress' = [serverAddress EXCEPT ![k] = a]
    /\ gatewayAddress' = [gatewayAddress EXCEPT ![k] = a]
    /\ UNCHANGED <<logVars, schedVars, fullNdf, pruneList, disabledNodes,
                   lockVars>>

\* UpdateOutputNdf without the test of line 390: the canonical NDF is pruned
\* and published whatever its timestamp.
UpdateOutputNdfAlways(loadedNdf, published, prune) ==
    LET pruned == PruneLoop(loadedNdf.nodes, loadedNdf.gateways, prune, 0)
    IN  [err |-> FALSE, updated |-> {"full", "partial"},
         fullNdf |-> [ts |-> loadedNdf.ts, nodes |-> pruned.nodes,
                      gateways |-> pruned.gateways]]

\* state.go:381-481  the outcome of UpdateOutputNdf for the canonical NDF
\* loadedNdf, the published NDF and the prune list: a canonical NDF that is
\* not strictly later than the published one is skipped with a nil error
\* (lines 390-394); otherwise the pruned copy (lines 400-421) replaces the
\* full and the partial NDF (lines 449-467).
UpdateOutputNdfResult(loadedNdf, published, prune) ==
    IF ~(loadedNdf.ts > published.ts)
    THEN [err |-> FALSE, updated |-> {}, fullNdf |-> published]
    ELSE LET pruned == PruneLoop(loadedNdf.nodes, loadedNdf.gateways, prune, 0)
         IN  [err |-> FALSE, updated |-> {"full", "partial"},
              fullNdf |-> [ts |-> loadedNdf.ts, nodes |-> pruned.nodes,
                           gateways |-> pruned.gateways]]

\* state.go:381-481  UpdateOutputNdf
UpdateOutputNdf ==
    /\ fullNdf' = UpdateOutputNdfResult(unprunedNdf, fullNdf, pruneList).fullNdf
    /\ UNCHANGED <<logVars, schedVars, unprunedNdf, pruneList, clock,
                   serverAddress, gatewayAddress, disabledNodes,
                   lockVars>>

\* part_002:236-282  updateNdfNodeAddr / updateNdfGatewayAddr: the record
\* with the operator's ID gets the address; found tells whether one exists.
UpdateNdfAddr(records, k, a) ==
    [found |-> \E i \in DOMAIN records : records[i].id = k,
     records |-> [i \in DOMAIN records |->
                     IF records[i].id = k THEN [records[i] EXCEPT !.addr = a]
                     ELSE records[i]]]

\* part_002:319-369  checkIPAddresses in the poll of a registered operator:
\* the node state takes the reported addresses; when one changed, the
\* addresses are written into the NDF GetFullNdf().Get() returns (the
\* published one, in place) and that NDF becomes the canonical NDF.  A
\* missing node or gateway record returns the error before UpdateNdf.
checkIPAddresses(k, na, ga) ==
    /\ serverAddress[k] # 0
    /\ LET nodeUpdate    == na # serverAddress[k]
           gatewayUpdate == ga # gatewayAddress[k]
           n1  == UpdateNdfAddr(fullNdf.nodes, k, na)
           ndf1 == IF nodeUpdate /\ n1.found
                   THEN [fullNdf EXCEPT !.nodes = n1.records] ELSE fullNdf
           g1  == UpdateNdfAddr(fullNdf.gateways, k, ga)
           ndf2 == IF gatewayUpdate /\ g1.found
                   THEN [ndf1 EXCEPT !.gateways = g1.records] ELSE ndf1
       IN  /\ nodeUpdate \/ gatewayUpdate
           /\ serverAddress' = [serverAddress EXCEPT ![k] = na]
           /\ gatewayAddress' = [gatewayAddress EXCEPT ![k] = ga]
           /\ IF nodeUpdate /\ ~n1.found
              THEN UNCHANGED <<fullNdf, unprunedNdf, clock>>
              ELSE IF gatewayUpdate /\ ~g1.found
              THEN fullNdf' = ndf1 /\ UNCHANGED <<unprunedNdf, clock>>
              ELSE fullNdf' = ndf2 /\ UpdateInternalNdf(ndf2)
    /\ UNCHANGED <<logVars, schedVars, pruneList, disabledNodes,
                   lockVars>>

\* state.go:222-235  SetPrunedNodes: the map replaces the prune list and
\* every node getDisabledNodes returns is entered as false.
SetPrunedNodes(prunedNodes) ==
    /\ pruneList' = [k \in Operators |->
                        IF k \in disabledNodes THEN "stale" ELSE prunedNodes[k]]
    /\ UNCHANGED <<logVars, schedVars, unprunedNdf, fullNdf, clock,
                   serverAddress, gatewayAddress, disabledNodes,
                   lockVars>>

\* state.go:239-244  SetPrunedNode
SetPrunedNode(k) ==
    /\ pruneList' = [pruneList EXCEPT ![k] = "prune"]
    /\ UNCHANGED <<logVars, schedVars, unprunedNdf, fullNdf, clock,
                   serverAddress, gatewayAddress, disabledNodes,
                   lockVars>>

\* state.go:210-218  setPrunedNodesNoReset
setPrunedNodesNoReset(ids) ==
    /\ pruneList' = [k \in Operators |->
                        IF k \in ids THEN "stale" ELSE pruneList[k]]
    /\ UNCHANGED <<logVars, schedVars, unprunedNdf, fullNdf, clock,
                   serverAddress, gatewayAddress, disabledNodes,
                   lockVars>>

\* state.go:617-626  the disabled-nodes poller created by CreateDisabledNodes
\* with setPrunedNodesNoReset as its callback: it reads the list of disabled
\* node IDs, keeps it for getDisabledNodes and hands it to the callback.
pollDisabledNodes(ids) ==
    /\ disabledNodes' = ids
    /\ pruneList' = [k \in Operators |->
                        IF k \in ids THEN "stale" ELSE pruneList[k]]
    /\ UNCHANGED <<logVars, schedVars, unprunedNdf, fullNdf, clock,
                   serverAddress, gatewayAddress, lockVars>>

\* ------------------------------------------------- the locks of the NDF

\* The instructions an operation executes on pruneListMux, InternalNdfLock
\* and outputNdfLock, in program order; a deferred unlock stands where it
\* runs, at the return, the last deferred first.

\* CountActiveNodes taking InternalNdfLock before pruneListMux.
CountActiveNodesInternalFirst ==
    << <<"RLock", "InternalNdfLock">>, <<"Lock", "pruneListMux">>,
       <<"Unlock", "pruneListMux">>, <<"RUnlock", "InternalNdfLock">> >>

\* state.go:197-207  CountActiveNodes
CountActiveNodesLocks ==
    << <<"Lock", "pruneListMux">>, <<"RLock", "InternalNdfLock">>,
       <<"RUnlock", "InternalNdfLock">>, <<"Unlock", "pruneListMux">> >>

\* state.go:210-244  setPrunedNodesNoReset, SetPrunedNodes, SetPrunedNode
PruneWriterLocks ==
    << <<"Lock", "pruneListMux">>, <<"Unlock", "pruneListMux">> >>

\* state.go:246-251  IsPruned
IsPrunedLocks ==
    << <<"RLock", "pruneListMux">>, <<"RUnlock", "pruneListMux">> >>

\* state.go:259-271  GetFullNdf, GetPartialNdf
GetNdfLocks ==
    << <<"RLock", "outputNdfLock">>, <<"RUnlock", "outputNdfLock">> >>

\* state.go:381-481  UpdateOutputNdf that prunes and publishes
UpdateOutputNdfLocks ==
    << <<"Lock", "outputNdfLock">>, <<"RLock", "InternalNdfLock">>,
       <<"RUnlock", "InternalNdfLock">>, <<"RLock", "pruneListMux">>,
       <<"RUnlock", "pruneListMux">>, <<"Unlock", "outputNdfLock">> >>

\* state.go:381-399  UpdateOutputNdf that returns at the sanity checks
UpdateOutputNdfSkipLocks ==
    << <<"Lock", "outputNdfLock">>, <<"RLock", "InternalNdfLock">>,
       <<"RUnlock", "InternalNdfLock">>, <<"Unlock", "outputNdfLock">> >>

\* The operations of NetworkState that take one of the three locks.
LockPrograms ==
    [CountActiveNodes      |-> CountActiveNodesLocks,
     setPrunedNodesNoReset |-> PruneWriterLocks,
     SetPrunedNodes        |-> PruneWriterLocks,
     SetPrunedNode         |-> PruneWriterLocks,
     IsPruned              |-> IsPrunedLocks,
     GetFullNdf            |-> GetNdfLocks,
     GetPartialNdf         |-> GetNdfLocks,
     UpdateOutputNdf       |-> UpdateOutputNdfLocks,
     UpdateOutputNdfSkip   |-> UpdateOutputNdfSkipLocks]

\* The locks held after the first k instructions of prog, in the order they
\* were acquired.
RECURSIVE HeldAfter(_, _)
HeldAfter(prog, k) ==
    IF k = 0 THEN <<>>
    ELSE LET h == HeldAfter(prog, k - 1)
             ins == prog[k]
         IN  IF ins[1] \in {"Lock", "RLock"} THEN Append(h, ins)
             ELSE SelectSeq(h, LAMBDA x : x[2] # ins[2])

\* The locks thread t holds.
Held(t) ==
    IF lockOp[t] = "none" THEN <<>>
    ELSE HeldAfter(LockPrograms[lockOp[t]], lockIdx[t])

\* The instruction thread t executes next.
NextInstruction(t) == LockPrograms[lockOp[t]][lockIdx[t] + 1]

\* sync.RWMutex: Lock waits until nobody holds the mutex, RLock until no
\* writer holds it; Unlock and RUnlock never wait.
CanStep(t) ==
    /\ lockOp[t] # "none"
    /\ lockIdx[t] < Len(LockPrograms[lockOp[t]])
    /\ LET ins == NextInstruction(t)
           others == UNION {Range(Held(o)) : o \in Threads \ {t}}
       IN  CASE ins[1] = "Lock" -> \A h \in others : h[2] # ins[2]
             [] ins[1] = "RLock" -> <<"Lock", ins[2]>> \notin others
             [] OTHER -> TRUE

\* A goroutine calls an operation of NetworkState.
LockCall(t, op) ==
    /\ lockOp[t] = "none"
    /\ lockOp' = [lockOp EXCEPT ![t] = op]
    /\ lockIdx' = [lockIdx EXCEPT ![t] = 0]
    /\ UNCHANGED <<logVars, schedVars, unprunedNdf, fullNdf, pruneList, clock,
                   serverAddress, gatewayAddress, disabledNodes>>

\* The goroutine executes its next lock instruction.
LockStep(t) ==
    /\ CanStep(t)
    /\ lockIdx' = [lockIdx EXCEPT ![t] = @ + 1]
    /\ UNCHANGED <<logVars, schedVars, unprunedNdf, fullNdf, pruneList, clock,
                   serverAddress, gatewayAddress, disabledNodes, lockOp>>

\* The operation returns, every lock released.
LockReturn(t) ==
    /\ lockOp[t] # "none"
    /\ lockIdx[t] = Len(LockPrograms[lockOp[t]])
    /\ lockOp' = [lockOp EXCEPT ![t] = "none"]
    /\ lockIdx' = [lockIdx EXCEPT ![t] = 0]
    /\ UNCHANGED <<logVars, schedVars, unprunedNdf, fullNdf, pruneList, clock,
                   serverAddress, gatewayAddress, disabledNodes>>

\* state.go:96-115  NewState: empty NDFs with the zero timestamp, an empty
\* prune list, no disabled-nodes object; no operator is registered.
InitNdf ==
    /\ unprunedNdf = [ts |-> 0, nodes |-> <<>>, gateways |-> <<>>]
    /\ fullNdf = [ts |-> 0, nodes |-> <<>>, gateways |-> <<>>]
    /\ pruneList = [k \in Operators |-> "none"]
    /\ clock = 1
    /\ serverAddress = [k \in Operators |-> 0]
    /\ gatewayAddress = [k \in Operators |-> 0]
    /\ disabledNodes = {}
    /\ lockOp = [t \in Threads |-> "none"]
    /\ lockIdx = [t \in Threads |-> 0]

\* ------------------------------------------------------------------- Init

\* The node map after registration, and scheduler (schedule.go:54-69) before
\* its first iteration.
InitSched ==
    /\ activity = [n \in Nodes |-> "NOT_STARTED"]
    /\ status = [n \in Nodes |-> "Active"]
    /\ currentRound = [n \in Nodes |-> 0]
    /\ pollingLock = [n \in Nodes |-> 0]
    /\ update = <<>>
    /\ cur = NoUpdate
    /\ schedPc = "select"
    /\ pool = <<>>
    /\ rounds = [r \in RoundIDs |-> NoRound]
    /\ roundID = 1
    /\ tracker = {}
    /\ newRoundChan = <<>>
    /\ starterPc = "running"
    /\ errorChan = <<>>
    /\ roundLog = <<>>
    /\ accepted = [n \in Nodes |-> <<>>]
    /\ enqueued = [n \in Nodes |-> <<>>]
    /\ standbyReported = [r \in RoundIDs |-> {}]
    /\ bannedHandled = {}
    /\ handlerError = "none"
    /\ now = 0
    /\ lastRound = 0
    /\ sleepUntil = 0
    /\ delayPc = "range"
    /\ queued = 0
    /\ startTimes = <<>>

\* The round-update log once NewState (state.go:92-194) has returned on
\* empty storage: the dummy update took UID 0 and is in the buffer.
InitLogReady ==
    /\ storedUpdateID = 1
    /\ updateID = 1
    /\ updateMux = 0
    /\ pc = [c \in Callers |-> "idle"]
    /\ oldUpdateID = [c \in Callers |-> 0]
    /\ ticket = [c \in Callers |-> 0]
    /\ history = <<>>
    /\ signing = {}
    /\ roundUpdatesToAddCh = <<>>
    /\ futureRoundUpdates = {}
    /\ nextID = 1
    /\ roundUpdates = <<0>>
    /\ nsPc = "ready"
    /\ restarts = 0
    /\ emitted = {0}
    /\ stateRoundID = 1
    /\ storedRoundID = 1

InitLog ==
    /\ storedUpdateID = -1
    /\ updateID = 0
    /\ updateMux = 0
    /\ pc = [c \in Callers |-> "idle"]
    /\ oldUpdateID = [c \in Callers |-> 0]
    /\ ticket = [c \in Callers |-> 0]
    /\ history = <<>>
    /\ signing = {}
    /\ roundUpdatesToAddCh = <<>>
    /\ futureRoundUpdates = {}
    /\ nextID = 0
    /\ roundUpdates = <<>>
    /\ nsPc = "start"
    /\ restarts = 0
    /\ emitted = {}
    /\ stateRoundID = 0
    /\ storedRoundID = -1

\* NewState about to run on storage that is empty or holds the State rows
\* earlier runs of the process left.
InitPersist ==
    /\ \E v \in {-1, MaxStored} : storedUpdateID = v /\ storedRoundID = v
    /\ updateID = 0
    /\ updateMux = 0
    /\ pc = [c \in Callers |-> "idle"]
    /\ oldUpdateID = [c \in Callers |-> 0]
    /\ ticket = [c \in Callers |-> 0]
    /\ history = <<>>
    /\ signing = {}
    /\ roundUpdatesToAddCh = <<>>
    /\ futureRoundUpdates = {}
    /\ nextID = 0
    /\ roundUpdates = <<>>
    /\ nsPc = "start"
    /\ restarts = 0
    /\ emitted = {}
    /\ stateRoundID = 0

Init == InitLog /\ InitSched /\ InitNdf

NextLog ==
    \/ \E c \in Callers : Lock(c)
    \/ \E c \in Callers : ReadUpdateID(c)
    \/ \E c \in Callers, dbOk \in BOOLEAN : IncrementUpdateID(c, dbOk)
    \/ \E u \in signing : Signer(u)
    \/ RoundAdderRoutine
    \/ NewStateLoad
    \/ NewStateDummy
    \/ NewStateWait
    \/ NewStateReturn
    \/ Restart

SpecLog == Init /\ [][NextLog]_vars

\* The round-update log with the round-ID counter beside it, started on
\* empty or on used storage.
NextPersist ==
    \/ \E c \in Callers : Lock(c)
    \/ \E c \in Callers : ReadUpdateID(c)
    \/ \E c \in Callers, dbOk \in BOOLEAN : IncrementUpdateID(c, dbOk)
    \/ \E u \in signing : Signer(u)
    \/ RoundAdderRoutine
    \/ NewStateLoad
    \/ NewStateDummy
    \/ NewStateWait
    \/ NewStateReturn
    \/ Restart
    \/ \E dbOk \in BOOLEAN : IncrementRoundID(dbOk)

InitRestartable == InitPersist /\ InitSched /\ InitNdf

SpecPersist == InitRestartable /\ [][NextPersist]_vars

Envs == [dbOk : BOOLEAN, metricOk : BOOLEAN]

InitSpec == InitLogReady /\ InitSched /\ InitNdf

Next ==
    \/ \E n \in Nodes, msg \in Msgs : Poll(n, msg)
    \/ \E n \in Nodes : BanNode(n)
    \/ SchedulerError
    \/ SchedulerReceive
    \/ \E env \in Envs : SchedulerHandle(env)
    \/ \E env \in Envs : RoundStarter(env)

Spec == InitSpec /\ [][Next]_vars

\* Nodes that report only WAITING and ERROR (an ERROR with Id 0 when they
\* have no round), in a run that creates one round more: a node can be
\* pooled again while the protoRound it is in waits for the round starter.
RestartingReports ==
    {msg \in Msgs : msg.activity \in {"WAITING", "ERROR"} /\ SignatureVerifies(msg)}

NextRace ==
    \/ \E n \in Nodes, msg \in RestartingReports : Poll(n, msg)
    \/ SchedulerError
    \/ SchedulerReceive
    \/ \E env \in Envs : SchedulerHandleUpTo(env, MaxRounds + 1)
    \/ \E env \in Envs : RoundStarter(env)

SpecRace == InitSpec /\ [][NextRace]_vars

NextNdf ==
    \/ \E k \in Operators : RegisterNode(k, 1)
    \/ UpdateOutputNdf
    \/ \E k \in Operators, na, ga \in Addrs : checkIPAddresses(k, na, ga)
    \/ \E m \in [Operators -> {"none", "prune", "stale"}] : SetPrunedNodes(m)
    \/ \E k \in Operators : SetPrunedNode(k)
    \/ \E ids \in (SUBSET Operators) \ {{}} : setPrunedNodesNoReset(ids)

SpecNdf == InitSpec /\ [][NextNdf]_vars

\* The round starter's loop against the clock, protoRounds arriving at any
\* time.
NextDelay ==
    \/ SendProtoRound /\ UNCHANGED <<logVars, ndfVars, sleepVars>>
    \/ StarterReceive /\ UNCHANGED <<logVars, ndfVars, sleepVars>>
    \/ StarterWake /\ UNCHANGED <<logVars, ndfVars, sleepVars>>
    \/ \E ok \in BOOLEAN :
           StarterStart(ok) /\ UNCHANGED <<logVars, ndfVars, sleepVars>>
    \/ Tick /\ UNCHANGED <<logVars, ndfVars, sleepVars>>

SpecDelay == InitSpec /\ [][NextDelay]_vars

\* The scheduler after a failure of the round starter: nodes report WAITING
\* and ERROR only, up to MaxRounds + 2 rounds are formed, and newRoundChan
\* is scaled to ScaledNewRoundChanLen protoRounds.
NextStop ==
    \/ \E n \in Nodes, msg \in RestartingReports : Poll(n, msg)
    \/ SchedulerError
    \/ SchedulerReceive
    \/ \E env \in Envs :
           SchedulerHandleBuffered(env, MaxRounds + 2, ScaledNewRoundChanLen)
    \/ \E env \in Envs : RoundStarter(env)

SpecStop == InitSpec /\ [][NextStop]_vars

\* A first start on empty storage: NewState loads nothing, emits the dummy
\* update and waits for it to reach the buffer; then the scheduler runs,
\* with the signing tasks and the round adder of the log beside it.
NextFresh ==
    \/ NewStateLoad
    \/ NewStateDummy
    \/ NewStateWait
    \/ \E u \in signing : Signer(u)
    \/ RoundAdderRoutine
    \/ nsPc = "ready" /\ \E n \in Nodes, msg \in RestartingReports : Poll(n, msg)
    \/ nsPc = "ready" /\ SchedulerError
    \/ nsPc = "ready" /\ SchedulerReceive
    \/ nsPc = "ready" /\ \E env \in Envs : SchedulerHandle(env)
    \/ nsPc = "ready" /\ \E env \in Envs : RoundStarter(env)

SpecFresh == Init /\ [][NextFresh]_vars

\* The same start where every goroutine that can run eventually does: the
\* thread of NewState, the signing goroutine of AddRoundUpdate and the round
\* adder are each scheduled by the Go runtime.
SpecFreshFair ==
    /\ Init /\ [][NextFresh]_vars
    /\ WF_vars(NewStateLoad)
    /\ WF_vars(NewStateDummy)
    /\ WF_vars(NewStateWait)
    /\ WF_vars(\E u \in signing : Signer(u))
    /\ WF_vars(RoundAdderRoutine)

\* Goroutines going through the operations of NetworkState that take the
\* NDF locks.
NextLocks ==
    \/ \E t \in Threads, op \in DOMAIN LockPrograms : LockCall(t, op)
    \/ \E t \in Threads : LockStep(t)
    \/ \E t \in Threads : LockReturn(t)

SpecLocks == InitSpec /\ [][NextLocks]_vars

\* The prune set under its three writers and the disabled-nodes poller, with
\* registration and publication of the NDF.
NextPrune ==
    \/ \E ids \in SUBSET Operators : pollDisabledNodes(ids)
    \/ \E m \in [Operators -> {"none", "prune", "stale"}] : SetPrunedNodes(m)
    \/ \E k \in Operators : SetPrunedNode(k)
    \/ \E k \in Operators : RegisterNode(k, 1)
    \/ UpdateOutputNdf

SpecPrune == InitSpec /\ [][NextPrune]_vars

\* ---------------------------------------------------------------- claims

\* C1: AddRoundUpdate calls, taken in the order in which they acquire
\* updateMux, are assigned UIDs that each are exactly one more than the UID
\* of the call before; hence later calls get strictly larger UIDs and the
\* successful calls get pairwise distinct UIDs.
C1_UidsMonotonic ==
    /\ \A i, j \in DOMAIN history :
           (i < j /\ history[i].uid # -1 /\ history[j].uid # -1)
               => history[j].uid = history[i].uid + (j - i)
    /\ \A i, j \in DOMAIN history :
           (i # j /\ history[i].res = "ok" /\ history[j].res = "ok")
               => history[i].uid # history[j].uid

\* Two callers have both completed a successful AddRoundUpdate.
C1_Witness ==
    \E i, j \in DOMAIN history :
        /\ i < j
        /\ history[i].caller # history[j].caller
        /\ history[i].res = "ok"
        /\ history[j].res = "ok"

\* C2: RoundAdderRoutine passes updates to roundUpdates.AddRound in strictly
\* increasing UID order, in every process lifetime (fresh start or restart).
C2_InsertedInUidOrder ==
    \A i, j \in DOMAIN roundUpdates :
        i < j => roundUpdates[i] < roundUpdates[j]

\* C3: the readable UIDs are contiguous: for every i from the first UID
\* emitted up to the last accepted UID, GetUpdates(i-1) starts with UID i.
C3_NoGaps ==
    emitted # {} =>
        LET first == CHOOSE x \in emitted : \A y \in emitted : x <= y
        IN  \A i \in first..GetLastUpdateID(roundUpdates) :
                /\ GetUpdates(roundUpdates, i - 1) # <<>>
                /\ Head(GetUpdates(roundUpdates, i - 1)) = i

\* C4: at any moment at most one UpdateNotification per node is in the update
\* channel or being processed by the handler.
C4_OneInFlightPerNode == \A n \in Nodes : Len(InFlight(n)) <= 1

\* The handler is processing the notification of one node while the
\* notification of another node waits in the channel.
C4_Witness ==
    /\ schedPc = "handle"
    /\ \E n \in Nodes : n # cur.node /\ Len(InFlight(n)) = 1 /\ pollingLock[n] = 1

\* The ToActivity values of the activity reports in flight for node n.
InFlightReports(n) ==
    LET q == SelectSeq(InFlight(n), LAMBDA u : u.toStatus # "Banned")
    IN  [i \in DOMAIN q |-> q[i].to]

Members(r) == Range(rounds[r].topology)

\* The phases of the RoundUpdates issued for round r.
EmittedPhases(r) ==
    {roundLog[i].phase : i \in {j \in DOMAIN roundLog : roundLog[j].rid = r}}

C7_BanSafety ==
    \A n \in bannedHandled : n \notin Range(pool) /\ currentRound[n] = 0

\* C8: a node whose activity is PRECOMPUTING, STANDBY, REALTIME or COMPLETED
\* has a current round, and a node whose activity is NOT_STARTED or WAITING
\* has none.
C8_ActivityRoundPointer ==
    \A n \in Nodes :
        /\ NeedsRound(activity[n]) => currentRound[n] # 0
        /\ NeedsNoRound(activity[n]) => currentRound[n] = 0

\* C8 (amended): a node that is not banned and whose activity is
\* PRECOMPUTING, STANDBY or REALTIME has a current round; so has a node that
\* is not banned and whose COMPLETED report is still in flight (the handler
\* clears the pointer when it processes the report); a NOT_STARTED node has
\* none; a WAITING node has none unless the round starter has made it a
\* member of a round.
C8_ActivityRoundPointerAmended ==
    \A n \in Nodes :
        /\ (status[n] # "Banned"
              /\ activity[n] \in {"PRECOMPUTING", "STANDBY", "REALTIME"})
               => currentRound[n] # 0
        /\ (status[n] # "Banned" /\ activity[n] = "COMPLETED"
              /\ InFlightReports(n) = <<"COMPLETED">>)
               => currentRound[n] # 0
        /\ activity[n] = "NOT_STARTED" => currentRound[n] = 0
        /\ (activity[n] = "WAITING" /\ currentRound[n] # 0)
               => n \in Members(currentRound[n])

\* One node is COMPLETED with its pointer cleared by the handler while its
\* team mate is in REALTIME and holds the round.
C8_Witness ==
    \E n, m \in Nodes :
        /\ activity[n] = "COMPLETED" /\ currentRound[n] = 0
        /\ activity[m] = "REALTIME" /\ currentRound[m] # 0
        /\ status[n] # "Banned" /\ status[m] # "Banned"

\* C10: the step in which HandleNodeUpdates runs starts with the polling
\* lock of the subject node held and ends with it released by exactly one
\* Unlock, whatever exit the handler takes; no other lock is touched.
C10_HandlerReleasesLock ==
    [][(schedPc = "handle" /\ schedPc' # "handle") =>
          /\ pollingLock[cur.node] = 1
          /\ pollingLock'[cur.node] = 0
          /\ \A m \in Nodes \ {cur.node} : pollingLock'[m] = pollingLock[m]]_vars

\* The handler has returned an error (the scheduler left its loop although
\* the round starter reported none) and no polling lock is held.
C10_Witness ==
    /\ schedPc = "exited"
    /\ starterPc = "running"
    /\ errorChan = <<>>
    /\ \A n \in Nodes : pollingLock[n] = 0

\* The IDs of a list of NDF records, in order.
Ids(records) == [i \in DOMAIN records |-> records[i].id]

\* C9: the published node list and gateway list have equal length and
\* gateway i belongs to the operator of node i; a publication holds the
\* canonical nodes that are not pruned, and their gateways, in canonical
\* order.
C9_CoIndexed ==
    /\ [](/\ Len(fullNdf.nodes) = Len(fullNdf.gateways)
          /\ Ids(fullNdf.gateways) = Ids(fullNdf.nodes))
    /\ [][fullNdf'.ts # fullNdf.ts =>
            /\ Ids(fullNdf'.nodes) =
                   Ids(SelectSeq(unprunedNdf.nodes,
                                 LAMBDA n : pruneList[n.id] # "prune"))
            /\ Ids(fullNdf'.gateways) =
                   Ids(SelectSeq(unprunedNdf.gateways,
                                 LAMBDA g : pruneList[g.id] # "prune"))]_vars

\* The first node of the canonical NDF is pruned and the publication holds
\* the second node with its own gateway.
C9_Witness ==
    /\ fullNdf.ts = unprunedNdf.ts
    /\ Len(unprunedNdf.nodes) = 2
    /\ pruneList[unprunedNdf.nodes[1].id] = "prune"
    /\ Len(fullNdf.nodes) = 1
    /\ fullNdf.nodes[1].id = unprunedNdf.nodes[2].id
    /\ fullNdf.gateways[1].id = unprunedNdf.nodes[2].id

\* ------------------------------------------------------------------- C11

\* C11: a report whose activity is not a legal successor of the node's
\* activity (WAITING -> COMPLETED, for one) is answered with an error and
\* no update: the activity and the current-round pointers stay as they are,
\* no UpdateNotification is enqueued (so no RoundUpdate follows from it) and
\* the polling lock is released.
C11_InvalidUpdateChangesNothing ==
    \A n \in Nodes, msg \in Msgs :
        (msg.activity # activity[n] /\ activity[n] \notin ValidFrom(msg.activity))
            => LET o == PollOutcome(n, msg)
               IN  /\ o.err
                   /\ ~o.updated
                   /\ o.activity = activity
                   /\ o.currentRound = currentRound
                   /\ o.update = update
                   /\ ~o.sent
                   /\ o.lock = 0

\* A node whose WAITING report was handled and which has been given a round:
\* its COMPLETED report is rejected.
C11_Witness ==
    \E n \in Nodes :
        /\ activity[n] = "WAITING"
        /\ currentRound[n] # 0
        /\ pollingLock[n] = 0
        /\ PollOutcome(n, [activity |-> "COMPLETED", errId |-> -1,
                           errNode |-> n, signer |-> n]).err

\* ------------------------------------------------------------------- C12

\* The scheduler step that handles the activity report a of a node.
HandlesReport(a) ==
    /\ schedPc = "handle"
    /\ schedPc' # "handle"
    /\ cur.toStatus # "Banned"
    /\ cur.to = a

\* The step consumed a UID without persisting it: AddRoundUpdate failed.
AddRoundUpdateFailed ==
    /\ updateID' = updateID + 1
    /\ storedUpdateID' = storedUpdateID
    /\ roundLog' = roundLog

\* The step emitted exactly one RoundUpdate, for round r with phase ph.
EmitsOne(r, ph) ==
    roundLog' = Append(roundLog, [uid |-> updateID, rid |-> r, phase |-> ph,
                                  batchSize |-> rounds[r].batchSize])

C13_RealtimeFirstReport ==
    [][ (HandlesReport("REALTIME") /\ currentRound[cur.node] # 0)
        => LET r == currentRound[cur.node]
           IN  /\ rounds[r].phase = "QUEUED"
                      => /\ rounds'[r].phase = "REALTIME"
                         /\ EmitsOne(r, "REALTIME") \/ AddRoundUpdateFailed
               /\ rounds[r].phase = "REALTIME"
                      => /\ rounds'[r].phase = "REALTIME"
                         /\ roundLog' = roundLog ]_vars

\* ------------------------------------------------------------------- C14

\* The scheduler step that handles the STANDBY report of the last member of
\* a round in PRECOMPUTING: every other member's report was handled before.
HandlesLastStandby ==
    /\ HandlesReport("STANDBY")
    /\ currentRound[cur.node] # 0
    /\ rounds[currentRound[cur.node]].phase = "PRECOMPUTING"
    /\ Members(currentRound[cur.node]) \ {cur.node}
           \subseteq standbyReported[currentRound[cur.node]]

\* C14: when the last member of a round reports STANDBY the handler emits
\* two RoundUpdates for the round, the first with phase STANDBY, the second
\* with phase QUEUED (none when the first UID cannot be persisted).
C14_StandbyThenQueued ==
    [][ HandlesLastStandby
        => LET r == currentRound[cur.node]
           IN  \/ roundLog' = roundLog \o
                      << [uid |-> updateID, rid |-> r, phase |-> "STANDBY",
                          batchSize |-> rounds[r].batchSize],
                         [uid |-> updateID + 1, rid |-> r, phase |-> "QUEUED",
                          batchSize |-> rounds[r].batchSize] >>
               \/ AddRoundUpdateFailed /\ schedPc' = "exited" ]_vars

\* C14, amended: when the last member of a round reports STANDBY the handler
\* moves the round through STANDBY to QUEUED and emits exactly one
\* RoundUpdate for it, with phase QUEUED; no update with phase STANDBY is
\* emitted (and none at all when the UID cannot be persisted: the handler
\* then returns the error).
C14_StandbyEmitsQueuedOnly ==
    [][ HandlesLastStandby
        => LET r == currentRound[cur.node]
           IN  /\ rounds'[r].phase = "QUEUED"
               /\ \/ EmitsOne(r, "QUEUED") /\ schedPc' = "select"
                  \/ AddRoundUpdateFailed /\ schedPc' = "exited" ]_vars

\* Every member's STANDBY report was handled: the round is QUEUED, the log
\* ends with its QUEUED update and holds no STANDBY update for it.
C14_Witness ==
    \E r \in RoundIDs :
        /\ rounds[r].phase = "QUEUED"
        /\ standbyReported[r] = Members(r)
        /\ roundLog # <<>>
        /\ roundLog[Len(roundLog)] = [uid |-> updateID - 1, rid |-> r,
                                      phase |-> "QUEUED",
                                      batchSize |-> rounds[r].batchSize]
        /\ "STANDBY" \notin EmittedPhases(r)

\* ------------------------------------------------------------------- C15

\* An ERROR notification of node n carrying a RoundError for round id.
ErrorUpdate(n, id) ==
    [node |-> n, from |-> activity[n], to |-> "ERROR", toStatus |-> status[n],
     errId |-> id]

C16_RetiredRoundFrozen ==
    [][ (schedPc = "handle" /\ schedPc' # "handle")
        => \A r \in RoundIDs :
               rounds[r].phase \in {"COMPLETED", "FAILED"}
                   => /\ rounds'[r].phase = rounds[r].phase
                      /\ rounds'[r].errors = rounds[r].errors
                      /\ \A i \in (Len(roundLog) + 1)..Len(roundLog') :
                             roundLog'[i].rid # r ]_vars

\* ------------------------------------------------------------------- C17

\* C17: after a round is killed, the next WAITING report of each other
\* member of its topology is accepted (and the handler then puts the member
\* into the online pool): whenever a member that is free to poll still
\* points at a FAILED round, node.State.Update takes its WAITING report.
C17_NextWaitingAccepted ==
    \A r \in RoundIDs : \A m \in Members(r) :
        (/\ rounds[r].phase = "FAILED"
         /\ currentRound[m] = r
         /\ status[m] # "Banned"
         /\ pollingLock[m] = 0
         /\ activity[m] # "WAITING")
            => LET o == PollOutcome(m, [activity |-> "WAITING", errId |-> -1,
                                        errNode |-> m, signer |-> m])
               IN  o.updated /\ ~o.err

\* ------------------------------------------------------------------- C18

\* C18: a failure of InsertRoundMetric or InsertRoundError never makes the
\* handler return an error nor stops the scheduler loop: the handler step
\* that retires a round (last COMPLETED report, or kill) and emits its
\* RoundUpdate returns no error and leaves the scheduler in its loop.
C18_MetricFailureNotFatal ==
    [][ (/\ schedPc = "handle"
         /\ schedPc' # "handle"
         /\ Len(roundLog') = Len(roundLog) + 1
         /\ roundLog'[Len(roundLog')].phase \in {"COMPLETED", "FAILED"})
        => /\ schedPc' = "select"
           /\ handlerError' = handlerError ]_vars

\* ------------------------------------------------------------------- C19

\* C19: when the handler returns an error the scheduler loop returns it at
\* once: the loop has exited, the step that met the error builds no
\* protoRound, and from then on no update is received from the channel and
\* no protoRound is built (the round starter may still take the protoRounds
\* sent before).
C19_HandlerErrorStopsScheduler ==
    /\ [](handlerError # "none" => schedPc = "exited" /\ cur = NoUpdate)
    /\ [][ handlerError' # "none"
           => /\ roundID' = roundID
              /\ \/ newRoundChan' = newRoundChan
                 \/ newRoundChan # <<>> /\ newRoundChan' = Tail(newRoundChan)
              /\ handlerError # "none"
                     => /\ cur' = cur
                        /\ Len(update') >= Len(update)
                        /\ pool' = pool
                        /\ handlerError' = handlerError ]_vars

\* The handler returned an error and the scheduler has exited while the
\* notification of another node waits in the update channel.
C19_Witness ==
    /\ handlerError # "none"
    /\ schedPc = "exited"
    /\ update # <<>>

\* ------------------------------------------------------------------- C20

\* C20: whenever the scheduler is not in the middle of an update the pool
\* holds fewer than TeamSize nodes; a step that sends to the round starter
\* sends exactly one protoRound, made of exactly TeamSize distinct nodes:
\* the pool as the handler left it, none of which stays in the pool.
C20_PoolBelowTeamSize ==
    /\ [](Len(pool) < TeamSize)
    /\ [][ Len(newRoundChan') > Len(newRoundChan)
           => LET new == newRoundChan'[Len(newRoundChan')]
                  team == Range(new.topology)
              IN  /\ newRoundChan' = Append(newRoundChan, new)
                  /\ Len(new.topology) = TeamSize
                  /\ Cardinality(team) = TeamSize
                  /\ team = Range(pool) \cup {cur.node}
                  /\ team \cap Range(pool') = {}
                  /\ new.ID = roundID
                  /\ roundID' = roundID + 1 ]_vars

\* A protoRound of TeamSize distinct nodes waits for the round starter and
\* the pool is empty again.
C20_Witness ==
    /\ newRoundChan # <<>>
    /\ Cardinality(Range(newRoundChan[1].topology)) = TeamSize
    /\ pool = <<>>
    /\ schedPc = "select"

\* ------------------------------------------------------------------- C21

\* C21 (RandomOrdering false): the pool grows only at its end, by the node
\* whose WAITING update is being handled, and shrinks only by a banned node
\* or by the team taken out of it; the protoRound built when the pool fills
\* lists the pool in that order, the node just handled last; the round
\* starter gives the round that topology; and the first RoundUpdate of every
\* round carries the configured BatchSize.
C21_TopologyInWaitingOrder ==
    /\ [][ /\ pool' # pool
              => \/ /\ HandlesReport("WAITING")
                    /\ \/ pool' = Append(pool, cur.node)
                       \/ /\ pool' = <<>>
                          /\ newRoundChan' # <<>>
                          /\ newRoundChan'[Len(newRoundChan')].topology
                                 = Append(pool, cur.node)
                 \/ /\ schedPc = "handle"
                    /\ cur.toStatus = "Banned"
                    /\ pool' = SelectSeq(pool, LAMBDA m : m # cur.node)
           /\ Len(newRoundChan') > Len(newRoundChan)
                  => /\ HandlesReport("WAITING")
                     /\ newRoundChan'[Len(newRoundChan')].topology
                            = Append(pool, cur.node)
           /\ \A r \in RoundIDs :
                  (rounds[r].phase = "NONE" /\ rounds'[r].phase # "NONE")
                      => /\ newRoundChan # <<>>
                         /\ Head(newRoundChan).ID = r
                         /\ rounds'[r].topology = Head(newRoundChan).topology
         ]_vars
    /\ [](\A i \in DOMAIN roundLog :
              (\A j \in 1..(i - 1) : roundLog[j].rid # roundLog[i].rid)
                  => roundLog[i].batchSize = BatchSize)

\* A round was started whose topology lists the higher-numbered node first:
\* that node's WAITING update was handled first; the round's first update
\* carries PRECOMPUTING and the configured batch size.
C21_Witness ==
    \E r \in RoundIDs :
        /\ rounds[r].topology = <<2, 1>>
        /\ roundLog # <<>>
        /\ roundLog[1].rid = r
        /\ roundLog[1].phase = "PRECOMPUTING"
        /\ roundLog[1].batchSize = BatchSize

\* ------------------------------------------------------------------- C22

\* C22: SetRound fails on a node that has a round and leaves its pointer as
\* it is; it succeeds only on a null pointer.  So no step replaces a
\* non-null current-round pointer by another round, and the round starter,
\* given a protoRound with a member that already has a round, reports the
\* error and stops, while a protoRound whose members have none gives each of
\* them the new round.
C22_SetRoundNeverOverwrites ==
    [][ /\ \A n \in Nodes :
               currentRound[n] # 0 => currentRound'[n] \in {0, currentRound[n]}
        /\ (starterPc = "running" /\ newRoundChan # <<>>
                /\ newRoundChan' = Tail(newRoundChan))
               => LET new == Head(newRoundChan)
                  IN  IF \E n \in Range(new.topology) : currentRound[n] # 0
                      THEN /\ starterPc' = "stopped"
                           /\ errorChan' = Append(errorChan, "setRoundErr")
                           /\ \A n \in Nodes :
                                  currentRound[n] # 0
                                      => currentRound'[n] = currentRound[n]
                      ELSE \A n \in Range(new.topology) :
                               currentRound'[n] = new.ID ]_vars

\* The round starter was given a second protoRound with a member that still
\* had the first round: it reported the error and the member kept its round.
C22_Witness ==
    /\ errorChan = <<"setRoundErr">>
    /\ starterPc = "stopped"
    /\ \E n \in Nodes, r \in RoundIDs :
           /\ rounds[r].phase = "PENDING"
           /\ n \in Members(r)
           /\ currentRound[n] \notin {0, r}

\* ------------------------------------------------------------------- C23

\* The report of activity a with no RoundError.
Report(a) == [activity |-> a, errId |-> -1, errNode |-> 1, signer |-> 1]

\* C23: for a node whose activity may be followed by a: when a requires a
\* round (PRECOMPUTING, STANDBY, REALTIME, COMPLETED) the update fails and
\* the activity stays when the node has no round or its round is not in the
\* phase a requires, and succeeds when it is; when a is WAITING the update
\* fails and the activity stays when the node still has a round, and
\* succeeds when it has none.
C23_RoundPreconditions ==
    \A n \in Nodes, a \in Activities :
        (activity[n] \in ValidFrom(a) /\ a # "ERROR")
            => LET o == PollOutcome(n, Report(a))
                   r == currentRound[n]
                   met == IF a = "WAITING" THEN r = 0
                          ELSE r # 0 /\ rounds[r].phase \in
                                   (CASE a = "PRECOMPUTING" -> {"PRECOMPUTING"}
                                      [] a = "STANDBY" -> {"PRECOMPUTING"}
                                      [] a = "REALTIME" -> {"QUEUED", "REALTIME"}
                                      [] a = "COMPLETED" -> {"REALTIME"})
               IN  IF met
                   THEN o.updated /\ o.activity[n] = a
                   ELSE o.err /\ ~o.updated /\ o.activity = activity

\* One node's PRECOMPUTING report was taken while its round was in
\* PRECOMPUTING; the round has failed since, and the PRECOMPUTING report of
\* the other member, still WAITING and pointing at the round, is refused.
C23_Witness ==
    \E n, m \in Nodes :
        /\ activity[n] = "PRECOMPUTING"
        /\ activity[m] = "WAITING"
        /\ currentRound[m] # 0
        /\ rounds[currentRound[m]].phase = "FAILED"
        /\ pollingLock[m] = 0
        /\ PollOutcome(m, Report("PRECOMPUTING")).err
        /\ ~PollOutcome(m, Report("PRECOMPUTING")).updated

\* ------------------------------------------------------------------- C24

\* The notification Poll builds for the report msg of node n.
Notification(n, msg) ==
    [node |-> n, from |-> activity[n], to |-> msg.activity,
     toStatus |-> status[n], errId |-> msg.errId]

\* C24: SendUpdateNotification always returns: with room in the channel the
\* notification is enqueued at the end and nil returned; with a full channel
\* an error is returned and the channel is left as it was.  A Poll that has
\* an update to send therefore always completes, whatever the channel holds.
C24_SendNeverBlocks ==
    /\ [](\A n \in Nodes, msg \in Msgs :
              LET snd == SendUpdateNotification(update, Notification(n, msg))
              IN  IF Len(update) < UpdateBufferLength
                  THEN snd.ok /\ snd.ch = Append(update, Notification(n, msg))
                  ELSE ~snd.ok /\ snd.ch = update)
    /\ [][ \A n \in Nodes :
               (activity'[n] # activity[n] /\ pollingLock'[n] = 1)
                   => \/ /\ Len(update) < UpdateBufferLength
                         /\ Len(update') = Len(update) + 1
                         /\ update'[Len(update')].node = n
                         /\ update'[Len(update')].to = activity'[n]
                         /\ enqueued'[n] = Append(enqueued[n], activity'[n])
                      \/ /\ Len(update) = UpdateBufferLength
                         /\ update' = update
                         /\ enqueued' = enqueued ]_vars

\* The channel is full and a node's update was refused by it: the node's
\* activity changed, its notification is nowhere and its lock is still held.
C24_Witness ==
    /\ Len(update) = UpdateBufferLength
    /\ \E n \in Nodes :
           /\ pollingLock[n] = 1
           /\ status[n] # "Banned"
           /\ InFlight(n) = <<>>
           /\ accepted[n] # <<>>
           /\ enqueued[n] = <<>>

\* C25: the timestamp of the published NDF never decreases, and an
\* UpdateOutputNdf whose canonical NDF is not strictly later than the
\* published one returns no error and updates neither the full nor the
\* partial NDF: the published NDF stays what it was.
C25_PublishedTimestampMonotonic ==
    /\ [](unprunedNdf.ts <= fullNdf.ts =>
            UpdateOutputNdfResult(unprunedNdf, fullNdf, pruneList) =
                [err |-> FALSE, updated |-> {}, fullNdf |-> fullNdf])
    /\ [][fullNdf'.ts >= fullNdf.ts]_vars

\* A publication has happened, the canonical NDF carries the published
\* timestamp, and pruning it now would publish different nodes.
C25_Witness ==
    /\ fullNdf.ts > 0
    /\ unprunedNdf.ts = fullNdf.ts
    /\ PruneLoop(unprunedNdf.nodes, unprunedNdf.gateways, pruneList, 0).nodes
           # fullNdf.nodes

\* state.go:407-418  what the prune list says of one node record: dropped
\* when its entry is true, otherwise kept with the status Stale for an entry
\* of false and Active for no entry.
PrunedNodes(nodes, prune) ==
    LET kept == SelectSeq(nodes, LAMBDA nd : prune[nd.id] # "prune")
    IN  [i \in DOMAIN kept |->
            [kept[i] EXCEPT !.status =
                IF prune[kept[i].id] = "stale" THEN "Stale" ELSE "Active"]]

\* C26: for the canonical NDF of every reachable state and every prune set,
\* the prune loop yields exactly the nodes whose entry is not true, in their
\* original order, Stale when the entry is false and Active when there is
\* none; and every publication puts exactly these nodes in the published NDF.
C26_PublishesUnprunedInOrder ==
    /\ [](\A prune \in [Operators -> {"none", "prune", "stale"}] :
            PruneLoop(unprunedNdf.nodes, unprunedNdf.gateways, prune, 0).nodes
                = PrunedNodes(unprunedNdf.nodes, prune))
    /\ [][fullNdf'.ts > fullNdf.ts =>
            fullNdf'.nodes = PrunedNodes(unprunedNdf.nodes, pruneList)]_vars

\* The canonical NDF with two nodes has been published while both, the last
\* one included, were to be pruned: nothing is left in the published NDF.
C26_Witness ==
    /\ Len(unprunedNdf.nodes) = 2
    /\ \A k \in Operators : pruneList[k] = "prune"
    /\ fullNdf.ts = unprunedNdf.ts
    /\ fullNdf.nodes = <<>>

\* C27: in every reachable state a node of the disabled-nodes list has no
\* prune-set entry of true: its entry, if any, is false.
C27_DisabledNeverPruned ==
    \A k \in disabledNodes : pruneList[k] # "prune"

\* The update NewState has emitted on a first start, before the scheduler
\* has emitted any, has UID u; and the first PRECOMPUTING update the
\* scheduler emits is the one of round 1 and has UID v.
FreshStartUIDs(u, v) ==
    /\ nsPc \in {"wait", "ready"} /\ roundLog = <<>> => emitted = {u}
    /\ \A i \in DOMAIN roundLog :
           /\ roundLog[i].phase = "PRECOMPUTING"
           /\ \A j \in 1..(i - 1) : roundLog[j].phase # "PRECOMPUTING"
           => roundLog[i].rid = 1 /\ roundLog[i].uid = v

\* C28 as stated: on a fresh start the dummy update has UID 1 and the first
\* round's PRECOMPUTING update carries round ID 1 and UID 2.
C28_DummyOneFirstRoundTwo == FreshStartUIDs(1, 2)

\* C28 amended: on a fresh start the dummy update has UID 0 and the first
\* round's PRECOMPUTING update carries round ID 1 and UID 1.
C28_DummyZeroFirstRoundOne == FreshStartUIDs(0, 1)

\* After a fresh start the first round has started and its PRECOMPUTING
\* update has followed the dummy into the buffer of round updates.
C28_Witness ==
    /\ restarts = 0
    /\ roundLog # <<>>
    /\ roundLog[1].phase = "PRECOMPUTING"
    /\ roundUpdates = <<0, 1>>

\* What NewState reads back on a restart is exactly what was last persisted:
\* once the rows are loaded, the update and round counters equal the
\* persisted UpdateId and RoundId.
ReloadsPersisted ==
    restarts > 0 /\ nsPc = "loaded" =>
        updateID = storedUpdateID /\ stateRoundID = storedRoundID

\* The first AddRoundUpdate after a restart, when it succeeds, emits the
\* update with UID stored + off, stored being the persisted UpdateId.
FirstAfterRestart(off) ==
    /\ restarts > 0
    /\ emitted = {}
    /\ emitted' # {}
    /\ history'[1].res = "ok"
    => emitted' = {storedUpdateID + off}

\* C29 as stated: a restart reads back the persisted RoundId and UpdateId,
\* and the first update emitted after it carries UID stored+1.
C29_ResumesFromStoredPlusOne ==
    []ReloadsPersisted /\ [][FirstAfterRestart(1)]_vars

\* C29 amended: a restart reads back the persisted RoundId and UpdateId, and
\* the first AddRoundUpdate after it, when it succeeds, emits the update with
\* UID stored: the persisted UpdateId is the next UID to assign.
C29_ResumesFromStored ==
    []ReloadsPersisted /\ [][FirstAfterRestart(0)]_vars

\* After a restart on rows of two digits an update has been emitted and the
\* round counter has been reloaded.
C29_Witness ==
    /\ restarts > 0
    /\ nsPc = "ready"
    /\ storedRoundID > MaxStored
    /\ stateRoundID = storedRoundID
    /\ emitted # {}
    /\ \A u \in emitted : u > MaxStored

\* C30: the round starter never calls startRound less than MinimumDelay after
\* its previous call.
C30_MinimumDelayBetweenStarts ==
    \A i \in 2..Len(startTimes) :
        startTimes[i] - startTimes[i - 1] >= MinimumDelay

\* C31: whenever the polling lock of a node is held after a Poll has
\* returned, an UpdateNotification of that node is in the update channel or
\* in the hands of the handler: the lock is never left held with no
\* notification pending.
C31_LockHeldHasNotification ==
    \A n \in Nodes : pollingLock[n] = 1 => InFlight(n) # <<>>

\* C32: a node of a protoRound that waits in newRoundChan for the round
\* starter is not in the waiting pool and is in no second protoRound, and no
\* PRECOMPUTING report of a node without a current round is accepted.
C32_ExtractedNodeStaysOut ==
    /\ \A i \in DOMAIN newRoundChan :
          \A n \in Range(newRoundChan[i].topology) :
              /\ n \notin Range(pool)
              /\ \A j \in DOMAIN newRoundChan :
                     j # i => n \notin Range(newRoundChan[j].topology)
    /\ \A n \in Nodes :
          currentRound[n] = 0 => ~NodeUpdate(n, "PRECOMPUTING").update

\* C33: no node in the waiting pool holds a current-round pointer.
C33_PooledNodeHasNoRound ==
    \A n \in Range(pool) : currentRound[n] = 0

\* The handler is given an update other than ERROR of a node whose current
\* round is FAILED.
HandlesAfterFailure ==
    /\ schedPc = "handle"
    /\ schedPc' # "handle"
    /\ currentRound[cur.node] # 0
    /\ rounds[currentRound[cur.node]].phase = "FAILED"
    /\ cur.to # "ERROR"

\* C34: when the subject node's current round is FAILED and the update is
\* not an ERROR, the handler returns nil and only releases the node's
\* polling lock: pointers, activities, the pool, the rounds, the tracker and
\* the update log stay as they were.
C34_FailedRoundUpdateIsNoOp ==
    [][HandlesAfterFailure =>
          /\ UNCHANGED <<currentRound, activity, pool, rounds, tracker,
                         roundLog, updateID, storedUpdateID, newRoundChan>>
          /\ pollingLock' = [pollingLock EXCEPT ![cur.node] = 0]
          /\ handlerError' = handlerError
          /\ schedPc' = "select"]_vars

\* A node's STANDBY report, accepted while its round was in PRECOMPUTING, was
\* handled after the round had failed: the node is still in STANDBY with its
\* pointer, its lock is free and the report was not counted.
C34_Witness ==
    \E n \in Nodes :
        /\ currentRound[n] # 0
        /\ rounds[currentRound[n]].phase = "FAILED"
        /\ activity[n] = "STANDBY"
        /\ n \notin standbyReported[currentRound[n]]
        /\ pollingLock[n] = 0
        /\ InFlight(n) = <<>>

\* The scheduler has handled an update that fills the pool and is at the
\* send of line 115 with newRoundChan, of capacity chanLen, full.
BlockedOnSend(chanLen) ==
    /\ schedPc = "handle"
    /\ Len(newRoundChan) >= chanLen
    /\ \A env \in Envs :
          LET res == HandleNodeUpdates(HandlerState, cur, env)
          IN  ~res.err /\ PoolIsFull(res.pl)

\* C35: once the round starter has stopped on a failed start, the scheduler
\* is never blocked on the send to newRoundChan, which nobody receives from
\* any more: it can always go on to take the error from the error channel.
C35_SchedulerNotBlockedAfterStarterStops ==
    ~(starterPc = "stopped" /\ BlockedOnSend(ScaledNewRoundChanLen))

HandlesErrorReport ==
    /\ schedPc = "handle" /\ schedPc' # "handle"
    /\ cur.to = "ERROR"
    /\ cur.toStatus # "Banned"

\* C37 as stated: a RoundError with a non-zero round ID passes verifyError
\* only when it is signed by the polling node itself.
C37_ErrorSignedByPollingNode ==
    \A n \in Nodes, msg \in Msgs :
        (msg.errId > 0 /\ verifyError(n, msg)) => msg.signer = n

\* C37: Poll accepts a RoundError with a non-zero round ID only if the
\* polling node has a current round with that ID and the signature verifies
\* with the key of the node the error names, which need not be the polling
\* node; any other such poll is rejected by verifyError before anything is
\* changed.  An accepted ERROR report makes the scheduler kill no round but
\* the round the reporting node is in.
C37_ErrorForOwnRoundSignedByNamedNode ==
    /\ [](\A n \in Nodes, msg \in Msgs :
              (msg.errId > 0 /\ verifyError(n, msg))
                  => /\ currentRound[n] # 0
                     /\ currentRound[n] = msg.errId
                     /\ SignatureVerifies(msg))
    /\ [][HandlesErrorReport =>
              \A r \in RoundIDs :
                  (rounds[r].phase # "FAILED" /\ rounds'[r].phase = "FAILED")
                      => r = currentRound[cur.node] /\ r = cur.errId]_vars

\* The scheduler has killed the round of a node on the node's ERROR report
\* for that round, which verifyError accepted also with the other node named
\* in the error.
C37_Witness ==
    \E n \in Nodes, r \in RoundIDs :
        /\ rounds[r].phase = "FAILED"
        /\ rounds[r].errors = <<n>>
        /\ activity[n] = "ERROR"
        /\ currentRound[n] = 0
        /\ \E m \in Nodes \ {n} : currentRound[m] = r /\
              verifyError(m, [activity |-> "ERROR", errId |-> r,
                              errNode |-> n, signer |-> n])

\* The locks every thread holds were acquired in increasing rank.
LockOrderRespected(rank) ==
    \A t \in Threads :
        LET h == Held(t)
        IN  \A i, j \in DOMAIN h : i < j => rank[h[i][2]] < rank[h[j][2]]

\* C38 as stated: the NDF locks are acquired in the order prune set,
\* internal NDF, output NDF.
C38_OrderPruneInternalOutput ==
    LockOrderRespected([pruneListMux |-> 1, InternalNdfLock |-> 2,
                        outputNdfLock |-> 3])

\* C38: every NetworkState operation acquires the NDF locks in the order
\* output NDF, prune set, internal NDF: none acquires outputNdfLock while
\* holding pruneListMux or InternalNdfLock, none acquires pruneListMux while
\* holding InternalNdfLock, and the operations never block each other for
\* good.
C38_OrderOutputPruneInternal ==
    /\ LockOrderRespected([outputNdfLock |-> 1, pruneListMux |-> 2,
                           InternalNdfLock |-> 3])
    /\ (\E t \in Threads : lockOp[t] # "none")
           => \E t \in Threads :
                  \/ CanStep(t)
                  \/ /\ lockOp[t] # "none"
                     /\ lockIdx[t] = Len(LockPrograms[lockOp[t]])

\* UpdateOutputNdf reads the internal NDF under the output lock while
\* CountActiveNodes, holding the prune set, is about to read it too.
C38_Witness ==
    \E t, o \in Threads :
        /\ lockOp[t] = "UpdateOutputNdf"
        /\ Held(t) = << <<"Lock", "outputNdfLock">>,
                        <<"RLock", "InternalNdfLock">> >>
        /\ lockOp[o] = "CountActiveNodes"
        /\ Held(o) = << <<"Lock", "pruneListMux">> >>

\* C39: an AddRoundUpdate that fails to persist the new UpdateId consumes no
\* UID: in a process started on empty storage every UID below the in-memory
\* counter has been given to an update, so the next successful call
\* continues right after the last emitted UID and the round adder never
\* waits for a UID nobody holds.
C39_FailedPersistConsumesNoUID ==
    (restarts = 0 /\ nsPc = "ready")
        => /\ \A u \in 0..(updateID - 1) : u \in emitted
           /\ futureRoundUpdates # {} => nextID \in emitted

\* C40: HandleNodeUpdates returns nil or an error for every update of a
\* registered node, with or without ClientErrors, whether or not the node
\* has a current round: it never panics on a nil round.
C40_HandlerNeverPanics ==
    \A n \in Nodes, to \in Activities, clientErrors \in BOOLEAN, env \in Envs :
        HandlerExit(HandlerState,
                    [node |-> n, from |-> activity[n], to |-> to,
                     toStatus |-> status[n], errId |-> -1],
                    clientErrors, env) \in {"nil", "error"}

====
